---- MODULE Spec2Model ----
(***************************************************************************)
(* Verification model of the NFL play-by-play analytics engine             *)
(* (api/lib/nfl_core.py) and of its cache layer (api/lib/cache.py).        *)
(*                                                                         *)
(* Win probabilities are fixed-point integers in units of 1e-5, so that    *)
(* 1.0 is 100000 and the default threshold 0.975 is 97500.  A JSON value    *)
(* that may be a number, null or absent is a record [k, v] with            *)
(* k \in {"num", "none", "missing"}.                                       *)
(***************************************************************************)
EXTENDS Integers, Sequences, FiniteSets, TLC

VARIABLES
  pc,      \* control position of the component under study
  inp,     \* inputs of the call being made (pure-function specifications)
  out,     \* result of the last call
  game,    \* process_game_stats arguments: box-score teams, wp_threshold
  stats,   \* stats[team_id]: the per-team counters
  details, \* details[team_id]: the expanded detail lists
  tracker, \* prev_home_wp / prev_away_wp and the start_wp_by_play_id walk
  drv,     \* the locals of the drive being folded
  last,    \* the play folded last and what the fold did with it
  cache,   \* the key-value store behind _cache, for the keys of one game
  payload  \* what the cache layer last returned to its caller

vars == <<pc, inp, out, game, stats, details, tracker, drv, last, cache, payload>>
foldVars == <<game, stats, details, tracker, drv, last>>
cacheVars == <<cache, payload>>

-----------------------------------------------------------------------------
(* JSON values *)

Num(n) == [k |-> "num", v |-> n]
NoneV == [k |-> "none", v |-> 0]
Missing == [k |-> "missing", v |-> 0]
IsNum(x) == x.k = "num"

\* dict.get(key, default): the default replaces an absent key only (a key
\* present with a null value yields None).
GetOr(x, default) == IF x.k = "missing" THEN default ELSE x

Max2(a, b) == IF a >= b THEN a ELSE b
Min2(a, b) == IF a <= b THEN a ELSE b

\* Fixed-point images of the literals 1.0 and 0.5.
One == 100000
Half == 50000

-----------------------------------------------------------------------------
(* is_competitive_play *)

MutIsCompetitiveFromProbsAtLeast(home_wp, away_wp, wp_threshold) ==
  IF ~IsNum(home_wp) \/ ~IsNum(away_wp) THEN "N"
  ELSE IF Max2(home_wp.v, away_wp.v) >= wp_threshold THEN "T" ELSE "F"

\* Three-valued verdict of one boundary: "T", "F", or "N" (None).
\* _is_competitive_from_probs
IsCompetitiveFromProbs(home_wp, away_wp, wp_threshold) ==
  IF ~IsNum(home_wp) \/ ~IsNum(away_wp) THEN "N"
  ELSE IF Max2(home_wp.v, away_wp.v) < wp_threshold THEN "T" ELSE "F"

\* A probability_map lookup result: NoProb when the play has no id or the map
\* has no (or an empty) entry for it, else the entry's two percentages.
NoProb == [has |-> FALSE, home |-> Missing, away |-> Missing]
Prob(h, a) == [has |-> TRUE, home |-> h, away |-> a]

StartCompetitive(wp_threshold, start_home_wp, start_away_wp) ==
  IF start_home_wp.k # "none" /\ start_away_wp.k # "none"
  THEN IsCompetitiveFromProbs(start_home_wp, start_away_wp, wp_threshold)
  ELSE "N"

EndCompetitive(prob, wp_threshold) ==
  IF prob.has
  THEN IsCompetitiveFromProbs(GetOr(prob.home, Num(Half)),
                              GetOr(prob.away, Num(Half)), wp_threshold)
  ELSE "N"

MutIsCompetitivePlayAnd(period, prob, wp_threshold, start_home_wp, start_away_wp) ==
  LET sc == StartCompetitive(wp_threshold, start_home_wp, start_away_wp)
      ec == EndCompetitive(prob, wp_threshold)
  IN  IF period >= 5 THEN TRUE
      ELSE IF sc = "N" /\ ec = "N" THEN TRUE
      ELSE IF sc = "N" THEN ec = "T"
      ELSE IF ec = "N" THEN sc = "T"
      ELSE sc = "T" /\ ec = "T"

MutIsCompetitivePlayNoEntry(period, prob, wp_threshold, start_home_wp, start_away_wp) ==
  LET sc == StartCompetitive(wp_threshold, start_home_wp, start_away_wp)
      ec == EndCompetitive(prob, wp_threshold)
  IN  IF period >= 5 THEN TRUE
      ELSE IF ec = "N" THEN TRUE
      ELSE IF sc = "N" THEN ec = "T"
      ELSE sc = "T" \/ ec = "T"

IsCompetitivePlay(period, prob, wp_threshold, start_home_wp, start_away_wp) ==
  LET sc == StartCompetitive(wp_threshold, start_home_wp, start_away_wp)
      ec == EndCompetitive(prob, wp_threshold)
  IN  IF period >= 5 THEN TRUE
      ELSE IF sc = "N" /\ ec = "N" THEN TRUE
      ELSE IF sc = "N" THEN ec = "T"
      ELSE IF ec = "N" THEN sc = "T"
      ELSE sc = "T" \/ ec = "T"

-----------------------------------------------------------------------------
(* Play text.  A text is a sequence of tokens (phrases as they appear in the  *)
(* feed); `kw in text.lower()` is a lookup of kw among the keywords that the   *)
(* lower-cased tokens contain as substrings.                                   *)

\* str.lower() on a token.
Lower(tok) ==
  CASE tok = "INTERCEPTED" -> "intercepted"
    [] tok = "FUMBLES" -> "fumbles"
    [] tok = "RECOVERED by AAA" -> "recovered by aaa"
    [] tok = "RECOVERED by BBB" -> "recovered by bbb"
    [] tok = "RECOVERED by Smith" -> "recovered by smith"
    [] tok = "RECOVERED by LA" -> "recovered by la"
    [] tok = "RECOVERED by WAS" -> "recovered by was"
    [] tok = "RECOVERED by JAC" -> "recovered by jac"
    [] tok = "REVERSED" -> "reversed"
    [] tok = "OVERTURNED" -> "overturned"
    [] tok = "TWO-POINT CONVERSION ATTEMPT" -> "two-point conversion attempt"
    [] tok = "Touchback" -> "touchback"
    [] tok = "MUFFED punt" -> "muffed punt"
    [] tok = "MUFFED kick" -> "muffed kick"
    [] tok = "TOUCHDOWN" -> "touchdown"
    [] tok = "No Play" -> "no play"
    [] tok = "PENALTY" -> "penalty"
    [] tok = "Pass" -> "pass"
    [] tok = "Pass Incompletion" -> "pass incompletion"
    [] tok = "Rush" -> "rush"
    [] tok = "Pass Interception Return" -> "pass interception return"
    [] tok = "Fumble Recovery (Own)" -> "fumble recovery (own)"
    [] tok = "Fumble Recovery (Opponent)" -> "fumble recovery (opponent)"
    [] tok = "Sack" -> "sack"
    [] tok = "Punt" -> "punt"
    [] tok = "Kickoff" -> "kickoff"
    [] tok = "Muffed Punt Recovery" -> "muffed punt recovery"
    [] tok = "Timeout" -> "timeout"
    [] tok = "End of Half" -> "end of half"
    [] tok = "Passing Touchdown" -> "passing touchdown"
    [] tok = "Field Goal Good" -> "field goal good"
    [] tok = "Penalty" -> "penalty"
    [] tok = "Unknown" -> "unknown"
    [] tok = "Safety" -> "safety"
    [] tok = "Kickoff Return (Offense)" -> "kickoff return (offense)"
    [] tok = "AAA" -> "aaa"
    [] tok = "BBB" -> "bbb"
    [] tok = "to Brunson" -> "to brunson"
    [] tok = "Aborted" -> "aborted"
    [] tok = "Intentional Grounding" -> "intentional grounding"
    [] tok = "LAR" -> "lar"
    [] tok = "WSH" -> "wsh"
    [] tok = "JAX" -> "jax"
    [] OTHER -> tok

\* The searched keywords that occur as substrings of a lower-cased token.
TokKW(t) ==
  CASE t = "pass" -> {"pass"}
    [] t = "pass incomplete" -> {"pass"}
    [] t = "intercepted" -> {"intercept"}
    [] t = "fumbles" -> {"fumble"}
    [] t = "recovered by aaa" -> {"recovered", "recovered by"}
    [] t = "recovered by bbb" -> {"recovered", "recovered by"}
    [] t = "recovered by smith" -> {"recovered", "recovered by"}
    [] t = "recovered by la" -> {"recovered", "recovered by"}
    [] t = "recovered by was" -> {"recovered", "recovered by"}
    [] t = "recovered by jac" -> {"recovered", "recovered by"}
    [] t = "and recovers" -> {"and recovers"}
    [] t = "two-point conversion attempt" -> {"two-point", "conversion attempt"}
    [] t = "touchback" -> {"touchback"}
    [] t = "punts" -> {"punt", "punts"}
    [] t = "kicks onside" -> {"kick", "onside"}
    [] t = "kicks" -> {"kick"}
    [] t = "kickoff" -> {"kick", "kickoff"}
    [] t = "muffed punt" -> {"muffed punt", "punt"}
    [] t = "muffed kick" -> {"muffed kick", "kick"}
    [] t = "up the middle" -> {"up the middle"}
    [] t = "touchdown" -> {"touchdown"}
    [] t = "kneels" -> {"kneel"}
    [] t = "spiked" -> {"spike"}
    [] t = "no play" -> {"no play"}
    [] t = "penalty" -> {"penalty"}
    [] t = "sacked" -> {"sack"}
    [] t = "scrambles" -> {"scramble"}
    [] t = "to brunson" -> {"run"}
    [] t = "aborted" -> {"aborted"}
    [] t = "intentional grounding" -> {"intentional grounding"}
    [] OTHER -> {}

\* Group 1 of _RECOVERED_BY_ABBR_RE on a lower-cased token: the 2-4 letter word
\* after "recovered by", "" when the token has none ("smith" is five letters).
RecoveredAbbrOf(t) ==
  CASE t = "recovered by aaa" -> "aaa"
    [] t = "recovered by bbb" -> "bbb"
    [] t = "recovered by la" -> "la"
    [] t = "recovered by was" -> "was"
    [] t = "recovered by jac" -> "jac"
    [] OTHER -> ""

\* N of a "for N yards" token (_YARDS_FOR_RE); tokens are named by their yards.
YardsTokens == {"for 3 yards", "for 25 yards", "for 20 yards"}
YardsOf(t) ==
  CASE t = "for 3 yards" -> 3
    [] t = "for 25 yards" -> 25
    [] t = "for 20 yards" -> 20
    [] OTHER -> 0

LowerText(text) == [i \in 1..Len(text) |-> Lower(text[i])]

\* kw in text_lower, for an already lower-cased text.
Has(text_lower, kw) == \E i \in 1..Len(text_lower) : kw \in TokKW(text_lower[i])

\* _REPLAY_DECISION_RE matches the words reversed / overturned, ignoring case.
IsReplayMarker(tok) == Lower(tok) \in {"reversed", "overturned"}

\* final_play_text
FinalPlayText(text) ==
  LET idx == {i \in 1..Len(text) : IsReplayMarker(text[i])}
  IN  IF idx = {} THEN text
      ELSE LET last_match == CHOOSE i \in idx : \A j \in idx : j <= i
               candidate == SubSeq(text, last_match + 1, Len(text))
           IN  IF candidate = <<>> THEN text ELSE candidate

\* The searched keywords that occur in a lower-cased type tag.
TagKW(t) ==
  CASE t = "pass" -> {"pass"}
    [] t = "pass incompletion" -> {"pass"}
    [] t = "rush" -> {"rush"}
    [] t = "pass interception return" -> {"pass", "interception", "return"}
    [] t = "fumble recovery (own)" -> {"fumble recovery (own)"}
    [] t = "fumble recovery (opponent)" -> {"fumble recovery (opponent)"}
    [] t = "sack" -> {"sack"}
    [] t = "punt" -> {"punt"}
    [] t = "kickoff" -> {"kickoff"}
    [] t = "muffed punt recovery" -> {"muff", "punt"}
    [] t = "timeout" -> {"timeout"}
    [] t = "end of half" -> {"end of"}
    [] t = "passing touchdown" -> {"pass", "touchdown"}
    [] t = "field goal good" -> {"field goal"}
    [] t = "penalty" -> {"penalty"}
    [] t = "safety" -> {"safety"}
    [] t = "kickoff return (offense)" -> {"kickoff", "return"}
    [] OTHER -> {}

TagHas(type_lower, kw) == kw \in TagKW(type_lower)

-----------------------------------------------------------------------------
(* Play classifier *)

NoTeam == "none"

\* is_nullified_play
IsNullifiedPlay(text_lower) == Has(text_lower, "nullified") \/ Has(text_lower, "no play")

\* is_penalty_play
IsPenaltyPlay(play, text_lower, type_lower) ==
  IF Has(text_lower, "declined") THEN FALSE
  ELSE IF Has(text_lower, "offsetting") THEN FALSE
  ELSE IF play.penStatus # "" /\ Has(text_lower, "no play") THEN TRUE
  ELSE Has(text_lower, "no play")
       /\ (Has(text_lower, "penalty") \/ TagHas(type_lower, "penalty"))

\* is_spike_or_kneel
IsSpikeOrKneel(text_lower, type_lower) ==
  \/ Has(text_lower, "spike") \/ TagHas(type_lower, "spike")
  \/ Has(text_lower, "kneel") \/ TagHas(type_lower, "kneel")

StKeywords == {"punt", "kickoff", "field goal", "extra point", "xp", "fg", "onside"}

\* is_special_teams_play
IsSpecialTeamsPlay(text_lower, type_lower) ==
  IF Has(text_lower, "touchdown") \/ TagHas(type_lower, "touchdown") THEN FALSE
  ELSE \E k \in StKeywords : Has(text_lower, k) \/ TagHas(type_lower, k)

RushPatterns == {"up the middle", "left end", "right end", "left tackle",
                 "right tackle", "left guard", "right guard", "middle for",
                 "around left", "around right"}

NotOffense == [off |-> FALSE, run |-> FALSE, pass |-> FALSE]

PassHint(play, text_lower, type_lower) ==
  \/ play.statHints \cap {"pass", "sack"} # {}
  \/ TagHas(type_lower, "pass") \/ TagHas(type_lower, "sack")
  \/ TagHas(type_lower, "scramble") \/ Has(text_lower, "pass")
  \/ Has(text_lower, "sack") \/ Has(text_lower, "scramble")

RushHint(play, text_lower, type_lower) ==
  \/ "rush" \in play.statHints \/ TagHas(type_lower, "rush")
  \/ Has(text_lower, "run") \/ \E p \in RushPatterns : Has(text_lower, p)

IsReturnPlay(text_lower, type_lower) ==
  \/ (Has(text_lower, "kickoff") \/ TagHas(type_lower, "kickoff"))
       /\ TagHas(type_lower, "return")
  \/ (Has(text_lower, "punt") \/ TagHas(type_lower, "punt"))
       /\ TagHas(type_lower, "return")

\* The run/pass verdict of the hints.
HintedPlay(pass_hint, rush_hint, scramble) ==
  [off |-> TRUE,
   run |-> rush_hint /\ ~(pass_hint /\ rush_hint /\ scramble),
   pass |-> pass_hint]

MutClassifyOffenseTextNoSpecialTeams(play, text_lower, type_lower) ==
  IF IsNullifiedPlay(text_lower) THEN NotOffense
  ELSE IF IsPenaltyPlay(play, text_lower, type_lower) THEN NotOffense
  ELSE IF IsSpikeOrKneel(text_lower, type_lower) THEN NotOffense
  ELSE IF IsReturnPlay(text_lower, type_lower) THEN NotOffense
  ELSE HintedPlay(PassHint(play, text_lower, type_lower),
                  RushHint(play, text_lower, type_lower),
                  Has(text_lower, "scramble") \/ TagHas(type_lower, "scramble"))

ClassifyOffenseText(play, text_lower, type_lower) ==
  IF IsNullifiedPlay(text_lower) THEN NotOffense
  ELSE IF IsPenaltyPlay(play, text_lower, type_lower) THEN NotOffense
  ELSE IF IsSpikeOrKneel(text_lower, type_lower) THEN NotOffense
  ELSE IF IsSpecialTeamsPlay(text_lower, type_lower) THEN NotOffense
  ELSE IF IsReturnPlay(text_lower, type_lower) THEN NotOffense
  ELSE HintedPlay(PassHint(play, text_lower, type_lower),
                  RushHint(play, text_lower, type_lower),
                  Has(text_lower, "scramble") \/ TagHas(type_lower, "scramble"))

\* classify_offense_play
ClassifyOffensePlay(play) ==
  ClassifyOffenseText(play, LowerText(play.text), Lower(play.type))

MutClassifyTotalOffenseTextNoKneel(play, text_lower, type_lower) ==
  ClassifyOffenseText(play, text_lower, type_lower)

ClassifyTotalOffenseText(play, text_lower, type_lower) ==
  IF IsNullifiedPlay(text_lower) THEN NotOffense
  ELSE IF IsPenaltyPlay(play, text_lower, type_lower) THEN NotOffense
  ELSE IF IsSpecialTeamsPlay(text_lower, type_lower) THEN NotOffense
  ELSE IF IsReturnPlay(text_lower, type_lower) THEN NotOffense
  ELSE IF IsSpikeOrKneel(text_lower, type_lower)
    THEN [off |-> TRUE,
          run |-> Has(text_lower, "kneel") \/ TagHas(type_lower, "kneel"),
          pass |-> Has(text_lower, "spike") \/ TagHas(type_lower, "spike")]
  ELSE HintedPlay(PassHint(play, text_lower, type_lower),
                  RushHint(play, text_lower, type_lower)
                    \/ (Has(text_lower, "aborted") /\ Has(text_lower, "fumble")),
                  Has(text_lower, "scramble") \/ TagHas(type_lower, "scramble"))

\* classify_total_offense_play
ClassifyTotalOffensePlay(play) ==
  ClassifyTotalOffenseText(play, LowerText(play.text), Lower(play.type))

MutCalculateSuccessThirdDownOnly(down, distance, yards_gained) ==
  IF down = 1 THEN 10 * yards_gained >= 4 * distance
  ELSE IF down = 2 THEN 10 * yards_gained >= 6 * distance
  ELSE IF down = 3 THEN yards_gained >= distance
  ELSE FALSE

\* calculate_success: yards >= 0.4 * distance is 10 * yards >= 4 * distance.
CalculateSuccess(down, distance, yards_gained) ==
  IF down = 1 THEN 10 * yards_gained >= 4 * distance
  ELSE IF down = 2 THEN 10 * yards_gained >= 6 * distance
  ELSE IF down \in {3, 4} THEN yards_gained >= distance
  ELSE FALSE

\* The last "for N yards" of the text before the fumble, else "for no gain" or
\* "for no loss"; [has |-> FALSE] stands for None.  No text of the model has a
\* "loss of N yards" phrase, so _YARDS_LOSS_RE never matches.
CreditedInPrefix(prefix) ==
  IF \E i \in 1..Len(prefix) : prefix[i] \in YardsTokens
  THEN [has |-> TRUE,
        v |-> YardsOf(prefix[CHOOSE i \in 1..Len(prefix) :
                               /\ prefix[i] \in YardsTokens
                               /\ \A j \in 1..Len(prefix) :
                                    prefix[j] \in YardsTokens => j <= i])]
  ELSE IF Has(prefix, "for no gain") \/ Has(prefix, "for no loss")
  THEN [has |-> TRUE, v |-> 0]
  ELSE [has |-> FALSE, v |-> 0]

\* The position of the first "fumble" of a lower-cased text (0 when none).
FirstFumble(lower) ==
  IF \E i \in 1..Len(lower) : "fumble" \in TokKW(lower[i])
  THEN CHOOSE i \in 1..Len(lower) :
         /\ "fumble" \in TokKW(lower[i])
         /\ \A j \in 1..Len(lower) : "fumble" \in TokKW(lower[j]) => i <= j
  ELSE 0

CreditedBefore(lower, first) ==
  IF first = 0 THEN [has |-> FALSE, v |-> 0]
  ELSE CreditedInPrefix(SubSeq(lower, 1, first - 1))

\* _credited_yards_before_fumble
CreditedYardsBeforeFumble(event_text) ==
  CreditedBefore(LowerText(event_text), FirstFumble(LowerText(event_text)))

-----------------------------------------------------------------------------
(* Turnover attribution (process_game_stats, the "Turnovers" block) *)

TeamSet(g) == {g.teams[i] : i \in 1..Len(g.teams)}

\* abbr_to_id.get(abbr)
AbbrToId(g, abbr) ==
  IF \E t \in TeamSet(g) : Lower(g.abbr[t]) = abbr
  THEN CHOOSE t \in TeamSet(g) : Lower(g.abbr[t]) = abbr
  ELSE NoTeam

\* id_to_abbr.get(team, '').lower()
AbbrOf(g, team) == IF team \in TeamSet(g) THEN Lower(g.abbr[team]) ELSE ""

\* _TEAM_ABBR_ALIASES.get(abbr, abbr)
TeamAbbrAlias(abbr) == IF abbr = "was" THEN "wsh" ELSE abbr

\* opponent_id: defined only in a two-team game for a start team of the box score.
OpponentId(g, start_team_id) ==
  IF Len(g.teams) = 2 /\ start_team_id \in TeamSet(g)
  THEN CHOOSE t \in TeamSet(g) : t # start_team_id
  ELSE NoTeam

\* play.start.team.id or team_id
StartTeamId(play, team_id) == IF play.startTeam # NoTeam THEN play.startTeam ELSE team_id

\* team_abbrev or id_to_abbr.get(team_id, '').lower()
OffenseAbbrev(g, play, team_id) ==
  IF play.teamAbbr # "" THEN play.teamAbbr ELSE AbbrOf(g, team_id)

IsTwoPointConversionAttempt(event_text_lower) ==
  \/ Has(event_text_lower, "two-point")
  \/ Has(event_text_lower, "2-point")
  \/ Has(event_text_lower, "conversion attempt")

MutInterceptionNoReversalGuard(play) ==
  \/ TagHas(Lower(play.type), "interception")
  \/ Has(LowerText(FinalPlayText(play.text)), "intercept")

\* interception, after the replay-reversal guard
Interception(play) ==
  LET event_text == FinalPlayText(play.text)
      etl == LowerText(event_text)
      has_replay_reversal == event_text # play.text
  IN  /\ TagHas(Lower(play.type), "interception") \/ Has(etl, "intercept")
      /\ ~(has_replay_reversal /\ ~Has(etl, "intercept"))

\* First match of _RECOVERED_BY_ABBR_RE in the event text ("" when none).
RecoveredAbbr(etl) ==
  LET idx == {i \in 1..Len(etl) : RecoveredAbbrOf(etl[i]) # ""}
  IN  IF idx = {} THEN ""
      ELSE RecoveredAbbrOf(etl[CHOOSE i \in idx : \A j \in idx : i <= j])

Ev(team, reason) == [team |-> team, reason |-> reason]

\* The keyword tests of the turnover block (lines 787-830) on the resolved,
\* lower-cased text and type tag of a play.
ScanFlags(play, team_id, etl, type_lower) ==
  LET muffed_punt == Has(etl, "muffed punt") \/ TagHas(type_lower, "muff")
      onside_kick == Has(etl, "onside") /\ Has(etl, "kick")
      end_team_id == play.endTeam
  IN  [muffed_kick |-> muffed_punt \/ Has(etl, "muffed kick") \/ Has(etl, "muffed kickoff"),
       interception |-> Interception(play),
       fumble_phrase |-> Has(etl, "fumble"),
       is_fumble_recovery_own |-> TagHas(type_lower, "fumble recovery (own)"),
       is_fumble_recovery_opp |-> TagHas(type_lower, "fumble recovery (opponent)")
                                  \/ TagHas(type_lower, "sack opp fumble recovery"),
       is_touchback |-> Has(etl, "touchback"),
       punt_in_air |-> Has(etl, "punts"),
       onside_kick |-> onside_kick,
       kicking_team_recovered_onside |->
         /\ onside_kick
         /\ end_team_id # NoTeam
         /\ end_team_id # team_id
         /\ Has(etl, "recovered")
         /\ (play.startTeam = NoTeam \/ end_team_id = play.startTeam),
       kickoff_play |-> TagHas(type_lower, "kickoff") \/ Has(etl, "kickoff")]

\* current_possessor / current_off_abbr before the interception check (poss0,
\* abbr0) and after it (poss1, abbr1) (lines 796-838).
ScanPossession(g, play, team_id, opponent_id, f) ==
  LET flipped0 ==
        \/ f.punt_in_air /\ opponent_id # NoTeam /\ (f.fumble_phrase \/ f.muffed_kick)
        \/ f.muffed_kick /\ opponent_id # NoTeam
        \/ f.kickoff_play /\ f.fumble_phrase /\ opponent_id # NoTeam
             /\ ~f.onside_kick /\ ~f.muffed_kick
      flipped1 == f.interception /\ opponent_id # NoTeam
      poss0 == IF flipped0 THEN opponent_id ELSE StartTeamId(play, team_id)
      abbr0 == IF flipped0 THEN AbbrOf(g, opponent_id)
               ELSE OffenseAbbrev(g, play, team_id)
  IN  [poss0 |-> poss0,
       poss1 |-> IF flipped1 THEN opponent_id ELSE poss0,
       abbr1 |-> IF flipped1 THEN AbbrOf(g, opponent_id) ELSE abbr0]

\* recovered_team_id of a fumble (lines 840-856).
RecoveredTeamId(g, play, etl, opponent_id, f, p) ==
  IF f.is_fumble_recovery_own THEN p.poss1
  ELSE IF f.is_fumble_recovery_opp /\ opponent_id # NoTeam THEN opponent_id
  ELSE IF RecoveredAbbr(etl) # ""
    THEN IF AbbrToId(g, TeamAbbrAlias(RecoveredAbbr(etl))) # NoTeam
         THEN AbbrToId(g, TeamAbbrAlias(RecoveredAbbr(etl))) ELSE play.endTeam
  ELSE IF Has(etl, "and recovers") \/ Has(etl, "recovers at") THEN p.poss1
  ELSE play.endTeam

MutFumbleTurnoverNoTouchback(etl, f, p, recovered_team_id) ==
  /\ f.fumble_phrase
  /\ IF recovered_team_id # NoTeam THEN recovered_team_id # p.poss1
     ELSE IF Has(etl, "recovered by")
       THEN ~(p.abbr1 # "" /\ \E i \in 1..Len(etl) : RecoveredAbbrOf(etl[i]) = p.abbr1)
     ELSE FALSE

\* fumble_turnover (lines 858-870).
FumbleTurnover(etl, f, p, recovered_team_id) ==
  /\ f.fumble_phrase
  /\ \/ f.is_touchback
     \/ IF recovered_team_id # NoTeam THEN recovered_team_id # p.poss1
        ELSE IF Has(etl, "recovered by")
          THEN ~(p.abbr1 # "" /\ \E i \in 1..Len(etl) : RecoveredAbbrOf(etl[i]) = p.abbr1)
        ELSE FALSE

\* The turnover_events in the order the code appends them (lines 818-877).
ScanResult(team_id, f, p, fumble_turnover) ==
  LET onside_events == IF f.kicking_team_recovered_onside
                       THEN <<Ev(team_id, "onside_kick_lost")>> ELSE <<>>
      int_events == IF f.interception THEN <<Ev(p.poss0, "interception")>> ELSE <<>>
      fumble_events == IF fumble_turnover /\ ~f.muffed_kick
                       THEN <<Ev(p.poss1, "fumble")>> ELSE <<>>
      muff_events == IF f.muffed_kick /\ ~f.kicking_team_recovered_onside
                     THEN <<Ev(p.poss1, "muffed_kick")>> ELSE <<>>
  IN  [events |-> onside_events \o int_events \o fumble_events \o muff_events,
       interception |-> f.interception,
       fumble_phrase |-> f.fumble_phrase,
       fumble_turnover |-> fumble_turnover]

ScanPossessed(g, play, team_id, etl, opponent_id, f, p) ==
  ScanResult(team_id, f, p,
             FumbleTurnover(etl, f, p, RecoveredTeamId(g, play, etl, opponent_id, f, p)))

\* The scan of a resolved text: flags, then possession, then the events.
ScanText(g, play, team_id, etl, opponent_id, f) ==
  ScanPossessed(g, play, team_id, etl, opponent_id, f,
                ScanPossession(g, play, team_id, opponent_id, f))

\* The turnover_events list of one play that is not a two-point attempt, and
\* the fumble_turnover flag.
TurnoverScan(g, play, team_id) ==
  ScanText(g, play, team_id, LowerText(FinalPlayText(play.text)),
           OpponentId(g, StartTeamId(play, team_id)),
           ScanFlags(play, team_id, LowerText(FinalPlayText(play.text)),
                     Lower(play.type)))

NoScan == [events |-> <<>>, interception |-> FALSE, fumble_phrase |-> FALSE,
           fumble_turnover |-> FALSE]

MutTurnoverEventsNoTwoPoint(g, play, team_id) == TurnoverScan(g, play, team_id)

\* Turnover block of one play: nothing on a two-point attempt.
TurnoverEvents(g, play, team_id) ==
  IF IsTwoPointConversionAttempt(LowerText(FinalPlayText(play.text))) THEN NoScan
  ELSE TurnoverScan(g, play, team_id)

-----------------------------------------------------------------------------
(* process_game_stats: the drive fold *)

\* sanitize_prob on a number: max(0.0, min(1.0, float(val)))
SanitizeProb(n) == Max2(0, Min2(One, n))

ZeroStats == [Plays |-> 0, OffYards |-> 0, TotalYards |-> 0, Successful |-> 0,
              Explosive |-> 0, Turnovers |-> 0, DrivesInside40 |-> 0,
              PointsInside40 |-> 0, StartFieldPosSum |-> 0, DrivesCount |-> 0,
              DrivePoints |-> 0, NonOffPoints |-> 0]
NoDetails == [Turnovers |-> <<>>, Explosive |-> <<>>]

NoYte == -1
NoDrive == [active |-> FALSE, team |-> NoTeam, skipped |-> FALSE, start_yte |-> NoYte,
            points |-> 0, crossed40 |-> FALSE, started_comp |-> FALSE,
            first_checked |-> FALSE, has_off |-> FALSE, yte_est |-> NoYte]

\* The probability_map entry the fold finds for a play (none without an id).
ProbOf(play) == IF play.hasId THEN play.prob ELSE NoProb

\* The fields of a play that the loop dereferences without a guard (lines
\* 673-680: text.lower(), .get on type, start and end; line 328 of
\* is_competitive_play: .get on period): a JSON null there raises
\* AttributeError.  play.nulls is the set of fields present with a null.
UnguardedFields == {"text", "type", "start", "end", "period"}
NullRaises(play) == play.nulls \cap UnguardedFields # {}

\* lookup_probability_with_delta subtracts the tracker from the entry's
\* percentages: a null percentage raises TypeError.
LookupRaises(play) ==
  LET prob == ProbOf(play)
  IN  prob.has /\ (~IsNum(GetOr(prob.home, Num(Half)))
                   \/ ~IsNum(GetOr(prob.away, Num(Half))))

\* update_prev_wp
UpdatePrevWp(tr, play) ==
  LET prob == ProbOf(play)
  IN  IF prob.has
      THEN [tr EXCEPT !.prev_home = GetOr(prob.home, tr.prev_home),
                      !.prev_away = GetOr(prob.away, tr.prev_away)]
      ELSE tr

\* One step of the start_wp_by_play_id walk (lines 407-421).
WalkStep(tr, play) ==
  IF ~play.hasId \/ ~play.prob.has THEN tr
  ELSE [tr EXCEPT
          !.walk_home = IF IsNum(play.prob.home)
                        THEN Num(SanitizeProb(play.prob.home.v)) ELSE @,
          !.walk_away = IF IsNum(play.prob.away)
                        THEN Num(SanitizeProb(play.prob.away.v)) ELSE @]

\* The competitive verdict of the fold for a play (line 688).
FoldCompetitive(g, tr, play) ==
  IsCompetitivePlay(play.period, ProbOf(play), g.thr, tr.prev_home, tr.prev_away)

\* The competitive verdict of the Non-Offensive Points pass for a scoring play
\* (lines 565-575): start_wp_by_play_id holds the walk's value at the play.
ScoringCompetitive(g, tr, play) ==
  IF play.hasId
  THEN IsCompetitivePlay(play.period, play.prob, g.thr, tr.walk_home, tr.walk_away)
  ELSE IsCompetitivePlay(play.period, NoProb, g.thr, NoneV, NoneV)

\* Lines 691-702: the first play of a drive.
FirstPlayDrive(d, play, competitive) ==
  IF d.first_checked THEN d
  ELSE LET start_yte == IF play.yte # NoYte THEN play.yte ELSE d.start_yte
       IN  [d EXCEPT !.first_checked = TRUE,
                     !.started_comp = competitive,
                     !.start_yte = IF start_yte # NoYte THEN start_yte ELSE @]

MutFirstPlayStatsAnyPlay(st, d, play, competitive) ==
  LET start_yte == IF play.yte # NoYte THEN play.yte ELSE d.start_yte
  IN  IF ~d.first_checked /\ start_yte # NoYte
      THEN [st EXCEPT ![d.team].StartFieldPosSum = @ + (100 - start_yte),
                      ![d.team].DrivesCount = @ + 1]
      ELSE st

FirstPlayStats(st, d, play, competitive) ==
  LET start_yte == IF play.yte # NoYte THEN play.yte ELSE d.start_yte
  IN  IF ~d.first_checked /\ competitive /\ start_yte # NoYte
      THEN [st EXCEPT ![d.team].StartFieldPosSum = @ + (100 - start_yte),
                      ![d.team].DrivesCount = @ + 1]
      ELSE st

TrackOffense(d, play, is_off) ==
  LET has_off == d.has_off \/ is_off
                 \/ (play.scoringPlay /\ TagHas(Lower(play.type), "field goal"))
      yte_for_check == IF play.yte # NoYte THEN play.yte ELSE d.yte_est
  IN  IF ~(is_off /\ ~d.crossed40) THEN [d EXCEPT !.has_off = has_off]
      ELSE IF yte_for_check <= 40
        THEN [d EXCEPT !.has_off = has_off, !.crossed40 = TRUE,
                       !.yte_est = yte_for_check]
      ELSE [d EXCEPT !.has_off = has_off,
                     !.crossed40 = (yte_for_check - play.yards <= 40),
                     !.yte_est = yte_for_check - play.yards]

\* Lines 747-767: offensive play seen, inside-40 estimate.  current_yte_est
\* starts as the drive's start.yardsToEndzone, whose default -1 is a number.
TrackInside40(d, play) ==
  IF ~d.started_comp THEN d
  ELSE TrackOffense(d, play, ClassifyOffensePlay(play).off)

RECURSIVE CountEvents(_, _, _)
\* Lines 878-893: count each event whose team is in stats.
CountEvents(st, events, i) ==
  IF i > Len(events) THEN st
  ELSE CountEvents(
         IF events[i].team \in DOMAIN st
         THEN [st EXCEPT ![events[i].team].Turnovers = @ + 1] ELSE st,
         events, i + 1)

RECURSIVE DetailEvents(_, _, _)
DetailEvents(dt, events, i) ==
  IF i > Len(events) THEN dt
  ELSE DetailEvents(
         IF events[i].team \in DOMAIN dt
         THEN [dt EXCEPT ![events[i].team].Turnovers = Append(@, events[i].reason)]
         ELSE dt,
         events, i + 1)

\* scoring_map[play_id]['points'] (lines 478-489): the score change of the
\* scoring play against the previous scoring play.
ScoringMapPoints(tr, play) ==
  LET dh == play.sp.home - tr.sp_home
      da == play.sp.away - tr.sp_away
  IN  IF dh > 0 THEN dh ELSE da

\* Lines 895-903: points of the drive.
DrivePointsOfPlay(d, tr, play) ==
  IF ~(play.scoringPlay /\ d.started_comp) THEN 0
  ELSE IF play.hasId /\ play.sp.in
    THEN IF play.sp.team = d.team THEN ScoringMapPoints(tr, play) ELSE 0
  ELSE play.scoreValue

IsIntentionalGrounding(play) ==
  \/ play.penStatus = "accepted" /\ play.penType = "intentional-grounding"
  \/ Has(LowerText(play.text), "intentional grounding")

\* Lines 924-944: the yards credited to a counted offense play; credited is
\* _credited_yards_before_fumble of the resolved text.
OffenseYards(play, scan, credited) ==
  IF scan.events # <<>>
  THEN IF scan.fumble_phrase /\ ~scan.interception /\ credited.has
       THEN credited.v ELSE 0
  ELSE IF scan.fumble_phrase /\ credited.has THEN credited.v
  ELSE IF IsIntentionalGrounding(play) THEN 0 ELSE play.yards

MutIsExplosivePass25(is_run, is_pass, yards) ==
  (is_run /\ yards >= 10) \/ (is_pass /\ yards > 25)

\* Line 954
IsExplosive(is_run, is_pass, yards) ==
  (is_run /\ yards >= 10) \/ (is_pass /\ yards >= 20)

\* Lines 920-965: offensive stats of a play classified cls that gained yards.
OffenseStats(st, d, play, cls, yards) ==
  IF ~(cls.off /\ (cls.run \/ cls.pass)) THEN st
  ELSE [st EXCEPT
          ![d.team].Plays = @ + 1,
          ![d.team].OffYards = @ + yards,
          ![d.team].Successful =
             IF CalculateSuccess(play.down, play.distance, yards) THEN @ + 1 ELSE @,
          ![d.team].Explosive =
             IF IsExplosive(cls.run, cls.pass, yards) THEN @ + 1 ELSE @]

OffenseDetails(dt, d, cls, yards) ==
  IF cls.off /\ (cls.run \/ cls.pass) /\ IsExplosive(cls.run, cls.pass, yards)
  THEN [dt EXCEPT ![d.team].Explosive = Append(@, yards)]
  ELSE dt

\* Lines 967-1028: total-offense yards of a play.  enforcedYte is the result
\* of _enforced_at_yards_to_endzone on the play (NoYte for None).
BySpot(play, scan, etl) ==
  /\ play.penStatus = "accepted"
  /\ play.yte # NoYte
  /\ ~Has(etl, "no play")
  /\ ~scan.interception /\ ~scan.fumble_phrase
  /\ (play.startTeam = NoTeam \/ play.endTeam = NoTeam
      \/ play.startTeam = play.endTeam)
  /\ play.enforcedYte # NoYte

MutTotalYardsOfPlayStatOnFumble(play, scan, credited, etl) ==
  LET base == IF IsIntentionalGrounding(play) THEN 0 ELSE play.yards
  IN  IF BySpot(play, scan, etl) THEN play.yte - play.enforcedYte
      ELSE IF IsTwoPointConversionAttempt(etl) THEN base
      ELSE IF scan.interception THEN 0
      ELSE base

TotalYardsOfPlay(play, scan, credited, etl) ==
  LET base == IF IsIntentionalGrounding(play) THEN 0 ELSE play.yards
  IN  IF BySpot(play, scan, etl) THEN play.yte - play.enforcedYte
      ELSE IF IsTwoPointConversionAttempt(etl) THEN base
      ELSE IF scan.interception THEN 0
      ELSE IF scan.fumble_phrase /\ credited.has THEN credited.v
      ELSE base

\* A null statYardage reaches `stats[...] += yards` (line 947) or
\* `stats[...] += total_yards` (line 1028) as None and raises TypeError, unless
\* the yards were replaced by 0 or by the credited yards before.
YardageRaises(play, cls, total, scan, credited, etl) ==
  /\ "statYardage" \in play.nulls
  /\ ~IsIntentionalGrounding(play)
  /\ \/ /\ cls.off /\ (cls.run \/ cls.pass)
        /\ scan.events = <<>>
        /\ ~(scan.fumble_phrase /\ credited.has)
     \/ /\ total.off
        /\ ~BySpot(play, scan, etl)
        /\ \/ IsTwoPointConversionAttempt(etl)
           \/ ~scan.interception /\ ~(scan.fumble_phrase /\ credited.has)

TotalStats(st, d, play, scan, credited, etl) ==
  IF ClassifyTotalOffensePlay(play).off
  THEN [st EXCEPT ![d.team].TotalYards = @ + TotalYardsOfPlay(play, scan, credited, etl)]
  ELSE st

\* Lines 563-601: the Non-Offensive Points pass on the scoring-list entry of a
\* play.  The skipped flag says the entry was dropped as non-competitive.
NonOffensive(g, tr, d, play) ==
  LET play_text == LowerText(play.text)
      play_type == Lower(play.type)
      is_safety == TagHas(play_type, "safety") \/ play.sp.stype = "safety"
                   \/ Has(play_text, "safety")
      has_touchdown == Has(play_text, "touchdown") \/ TagHas(play_type, "touchdown")
                       \/ play.sp.stype = "touchdown"
      is_kick_return_td ==
        (Has(play_text, "kickoff") \/ TagHas(play_type, "kickoff")) /\ has_touchdown
      is_punt_return_td ==
        /\ Has(play_text, "punt") \/ TagHas(play_type, "punt")
        /\ has_touchdown
        /\ Has(play_text, "return") \/ TagHas(play_type, "return")
      is_non_offensive ==
        \/ is_safety \/ is_kick_return_td \/ is_punt_return_td
        \/ (play.hasId /\ d.team # NoTeam /\ play.sp.team # NoTeam
            /\ d.team # play.sp.team)
      points == IF is_safety THEN 2 ELSE ScoringMapPoints(tr, play)
      competitive == ScoringCompetitive(g, tr, play)
  IN  [skipped |-> ~competitive,
       team |-> play.sp.team,
       points |-> IF competitive /\ is_non_offensive THEN points ELSE 0]

NonOffPointsAdded(st, play, no) ==
  IF play.sp.in /\ no.team \in DOMAIN st
  THEN [st EXCEPT ![no.team].NonOffPoints = @ + no.points]
  ELSE st

NonOffStats(g, st, tr, d, play) ==
  NonOffPointsAdded(st, play, NonOffensive(g, tr, d, play))

\* The pre-passes' effect on the walk and on the scoring-list scores.
PrePass(tr, play) ==
  LET w == WalkStep(tr, play)
  IN  IF play.sp.in THEN [w EXCEPT !.sp_home = play.sp.home, !.sp_away = play.sp.away,
                                    !.n = @ + 1]
      ELSE [w EXCEPT !.n = @ + 1]

\* How the fold disposes of a play (lines 688-743).
Verdict(g, tr, d, play) ==
  IF d.skipped THEN "drive_skipped"
  ELSE IF NullRaises(play) \/ LookupRaises(play) THEN "raised"
  ELSE IF TagHas(Lower(play.type), "timeout") \/ TagHas(Lower(play.type), "end of")
    THEN "marker"
  ELSE IF IsNullifiedPlay(LowerText(play.text)) THEN "nullified"
  ELSE IF ~FoldCompetitive(g, tr, play) THEN "noncompetitive"
  ELSE "counted"

-----------------------------------------------------------------------------
(* Actions of the fold.  The feed is read play by play: the pre-passes of      *)
(* process_game_stats (start_wp_by_play_id, scoring_map, Non-Offensive        *)
(* Points) visit the same plays in the same order, so their step for a play   *)
(* is taken when the play is read.                                             *)

MaxPlays == 2

\* The mutable state of one run of process_game_stats.
RunState(st, dt, tr, d, p) ==
  [stats |-> st, details |-> dt, tracker |-> tr, drv |-> d, pc |-> p]

\* for drive in drives (lines 648-670)
StartDriveStep(s, team, yte) ==
  [s EXCEPT !.drv = [NoDrive EXCEPT !.active = TRUE, !.team = team,
                                    !.skipped = (team \notin DOMAIN s.stats),
                                    !.start_yte = yte, !.yte_est = yte]]

\* The statistics of a counted play (lines 745-1028), from the drive and the
\* statistics after its first-play check.  No caller sees the counters that a
\* raise leaves behind.
CountedPlay(s, play, st1, d2, scan, credited, yards) ==
  RunState(TotalStats(OffenseStats(CountEvents(st1, scan.events, 1), s.drv, play,
                                   ClassifyOffensePlay(play), yards),
                      s.drv, play, scan, credited, LowerText(FinalPlayText(play.text))),
           OffenseDetails(DetailEvents(s.details, scan.events, 1), s.drv,
                          ClassifyOffensePlay(play), yards),
           s.tracker,
           [d2 EXCEPT !.points = @ + DrivePointsOfPlay(d2, s.tracker, play)],
           IF YardageRaises(play, ClassifyOffensePlay(play),
                            ClassifyTotalOffensePlay(play), scan, credited,
                            LowerText(FinalPlayText(play.text)))
           THEN "raised" ELSE "fold")

ScannedPlay(s, play, st1, d1, scan, credited) ==
  CountedPlay(s, play, st1, TrackInside40(d1, play), scan, credited,
              OffenseYards(play, scan, credited))

\* What a play that is not skipped as a whole does (lines 688-1065).
FoldedPlay(g, s, play, verdict, st1, d1, tr) ==
  [IF verdict = "counted"
   THEN ScannedPlay(s, play, st1, d1, TurnoverEvents(g, play, s.drv.team),
                    CreditedYardsBeforeFumble(FinalPlayText(play.text)))
   ELSE RunState(st1, s.details, tr, d1, "fold")
   EXCEPT !.tracker = tr]

PlayVerdict(g, s, play, verdict, competitive, st0, tr0) ==
  IF verdict \in {"drive_skipped", "raised"}
  THEN RunState(st0, s.details, tr0, s.drv,
                IF verdict = "raised" THEN "raised" ELSE "fold")
  ELSE FoldedPlay(g, s, play, verdict,
                  FirstPlayStats(st0, s.drv, play, competitive),
                  FirstPlayDrive(s.drv, play, competitive),
                  UpdatePrevWp(tr0, play))

\* One iteration of `for play in drive_plays` (lines 672-1065), with the
\* pre-passes' step for the play: the new run state and what was decided.
PlayStep(g, s, play) ==
  [state |-> PlayVerdict(g, s, play, Verdict(g, s.tracker, s.drv, play),
                         FoldCompetitive(g, s.tracker, play),
                         NonOffStats(g, s.stats, s.tracker, s.drv, play),
                         PrePass(s.tracker, play)),
   verdict |-> Verdict(g, s.tracker, s.drv, play),
   competitive |-> FoldCompetitive(g, s.tracker, play),
   events |-> IF Verdict(g, s.tracker, s.drv, play) = "counted"
              THEN TurnoverEvents(g, play, s.drv.team).events ELSE <<>>,
   sp_skipped |-> play.sp.in /\ NonOffensive(g, s.tracker, s.drv, play).skipped]

\* After the plays of a drive (lines 1067-1073)
EndDriveStep(s) ==
  LET d == s.drv
      crossed == d.crossed40 \/ (d.has_off /\ d.start_yte # NoYte /\ d.start_yte <= 40)
      inside == crossed /\ d.has_off
  IN  [s EXCEPT
         !.stats = IF d.skipped \/ ~d.started_comp THEN @
                   ELSE [@ EXCEPT
                           ![d.team].DrivesInside40 = IF inside THEN @ + 1 ELSE @,
                           ![d.team].PointsInside40 = IF inside THEN @ + d.points ELSE @,
                           ![d.team].DrivePoints = @ + d.points],
         !.drv = NoDrive]

Now == RunState(stats, details, tracker, drv, pc)

Becomes(s) ==
  /\ stats' = s.stats
  /\ details' = s.details
  /\ tracker' = s.tracker
  /\ drv' = s.drv
  /\ pc' = s.pc

StartDrive(team, yte) ==
  /\ pc = "fold"
  /\ ~drv.active
  /\ inp.open
  /\ Becomes(StartDriveStep(Now, team, yte))
  /\ UNCHANGED <<inp, out, game, last, cacheVars>>

\* inp.feed is the list of plays read so far, each with the team and start of
\* its drive and whether it opened the drive; inp.open says that more plays
\* follow.
Fold(play, more) ==
  /\ pc = "fold"
  /\ drv.active
  /\ \E r \in {PlayStep(game, Now, play)} :
         /\ Becomes(r.state)
         /\ last' = [play |-> play, team |-> drv.team, verdict |-> r.verdict,
                     competitive |-> r.competitive, events |-> r.events,
                     start_home |-> tracker.prev_home, start_away |-> tracker.prev_away,
                     sp_skipped |-> r.sp_skipped,
                     before |-> stats, details_before |-> details]
  /\ inp' = [inp EXCEPT !.open = more,
                        !.feed = Append(@, [play |-> play, team |-> drv.team,
                                            start_yte |-> drv.start_yte,
                                            first |-> ~drv.first_checked])]
  /\ UNCHANGED <<out, game, cacheVars>>

\* The feeds under study are a bounded prefix of plays drawn from U followed
\* by one more play.
ProcessPlay(U) ==
  /\ inp.open
  /\ tracker.n < MaxPlays
  /\ \E play \in U : Fold(play, TRUE)

ProcessLastPlay(U) ==
  /\ inp.open
  /\ \E play \in U : Fold(play, FALSE)

EndDrive ==
  /\ pc = "fold"
  /\ drv.active
  /\ Becomes(EndDriveStep(Now))
  /\ UNCHANGED <<inp, out, game, last, cacheVars>>

\* round(x / y, 2) in hundredths, for x, y >= 0 (exact halves do not occur
\* for the point values used: they round to even in the code).
RoundDiv100(x, y) == (200 * x + y) \div (2 * y)

\* Build final rows (lines 1121-1150), the columns the claims read.
FinalRow(d) ==
  [Turnovers |-> d.Turnovers,
   TotalYards |-> d.TotalYards,
   ExplosivePlays |-> d.Explosive,
   PointsPerTrip100 |-> RoundDiv100(d.PointsInside40, Max2(d.DrivesInside40, 1)),
   Drives |-> d.DrivesCount,
   NonOffensivePoints |-> d.NonOffPoints]

FinalRows(st) == [t \in DOMAIN st |-> FinalRow(st[t])]

\* return final_rows, details
Finish ==
  /\ pc = "fold"
  /\ ~drv.active
  /\ pc' = "done"
  /\ out' = FinalRows(stats)
  /\ UNCHANGED <<inp, game, stats, details, tracker, drv, last, cacheVars>>

-----------------------------------------------------------------------------
(* cache.py: the cached triad {meta, stats, plays} of a game *)

CACHE_VERSION == "1.3"
Keys == {"meta", "stats", "plays"}

\* str.upper() on an abbreviation or on a regex group.
Upper(abbr) ==
  CASE abbr = "aaa" -> "AAA"
    [] abbr = "bbb" -> "BBB"
    [] abbr = "smi" -> "SMI"
    [] OTHER -> abbr

\* aliases.get(a) of normalize_abbr ("" when none)
CacheAlias(a) ==
  CASE a = "LA" -> "LAR"
    [] a = "WAS" -> "WSH"
    [] a = "JAC" -> "JAX"
    [] OTHER -> ""

\* normalize_abbr, for abbreviations of three letters (the two-letter prefix
\* rule never applies to them).
NormalizeAbbr(abbr, known) ==
  LET a == Upper(abbr)
  IN  IF abbr = "" THEN ""
      ELSE IF a \in known THEN a
      ELSE IF CacheAlias(a) # "" /\ CacheAlias(a) \in known THEN CacheAlias(a)
      ELSE a

\* Group 1 of r"recovered by\s+([a-z]{2,3})" on a lower-cased token: up to
\* three letters, with no word boundary after them.
CacheRecoveredAbbrOf(t) ==
  CASE t = "recovered by aaa" -> "aaa"
    [] t = "recovered by bbb" -> "bbb"
    [] t = "recovered by smith" -> "smi"
    [] OTHER -> ""

\* round(x, 4) on a probability in units of 1e-5 (no value ends in 5).
Round4(x) == ((x + 5) \div 10) * 10

\* round(v, 4) if v is a number else None
RoundOrNone(x) == IF IsNum(x) THEN Num(Round4(x.v)) ELSE NoneV

\* is_turnover of build_cache_plays (lines 339-356)
CacheIsTurnover(g, play, drive_team_abbr) ==
  LET etl == LowerText(FinalPlayText(play.text))
      known == {g.abbr[t] : t \in TeamSet(g)}
      idx == {i \in 1..Len(etl) : CacheRecoveredAbbrOf(etl[i]) # ""}
      recovered_abbr ==
        IF idx = {} THEN ""
        ELSE NormalizeAbbr(CacheRecoveredAbbrOf(etl[CHOOSE i \in idx : \A j \in idx : i <= j]),
                           known)
      offense_abbr == NormalizeAbbr(drive_team_abbr, known)
      two_point == IsTwoPointConversionAttempt(etl)
      is_interception == ~two_point /\ Has(etl, "intercept")
      is_fumble_turnover ==
        /\ ~two_point /\ Has(etl, "fumble") /\ Has(etl, "recovered by")
        /\ IF recovered_abbr # "" /\ offense_abbr # "" THEN recovered_abbr # offense_abbr
           ELSE TRUE
  IN  is_interception \/ is_fumble_turnover

\* The plays_list entry of one play (lines 322-387), the fields the rebuild reads.
CachedPlayOf(g, play, cls, drive_team_abbr, prev_home, prev_away) ==
  [quarter |-> play.period,
   text |-> play.text,
   yards |-> play.yards,
   start_home_wp |-> RoundOrNone(prev_home),
   start_away_wp |-> RoundOrNone(prev_away),
   home_wp |-> RoundOrNone(play.prob.home),
   away_wp |-> RoundOrNone(play.prob.away),
   is_offensive |-> cls.off,
   is_run |-> cls.run,
   is_pass |-> cls.pass,
   is_successful |-> cls.off /\ CalculateSuccess(play.down, play.distance, play.yards),
   is_turnover |-> CacheIsTurnover(g, play, drive_team_abbr),
   drive_team |-> drive_team_abbr]

CachedPlay(g, e, prev_home, prev_away) ==
  CachedPlayOf(g, e.play, ClassifyOffensePlay(e.play),
               IF e.team \in TeamSet(g) THEN g.abbr[e.team] ELSE "",
               prev_home, prev_away)

RECURSIVE CachePlaysFrom(_, _, _, _, _)
\* for play in drive_plays (lines 317-392): plays without id are left out; the
\* previous win probability moves only on numeric entries; wp_delta raises
\* TypeError on a numeric home entry while the previous value is None.
CachePlaysFrom(g, feed, i, prev_home, prev_away) ==
  IF i > Len(feed) THEN [raised |-> FALSE, plays |-> <<>>]
  ELSE LET e == feed[i]
           prob == e.play.prob
       IN  IF ~e.play.hasId THEN CachePlaysFrom(g, feed, i + 1, prev_home, prev_away)
           ELSE IF IsNum(prob.home) /\ ~IsNum(prev_home)
             THEN [raised |-> TRUE, plays |-> <<>>]
           ELSE LET rest == CachePlaysFrom(g, feed, i + 1,
                                           IF IsNum(prob.home) THEN prob.home ELSE prev_home,
                                           IF IsNum(prob.away) THEN prob.away ELSE prev_away)
                IN  [raised |-> rest.raised,
                     plays |-> <<CachedPlay(g, e, prev_home, prev_away)>> \o rest.plays]

\* build_cache_plays(raw_data, probability_map, pregame_probabilities)
BuildCachePlays(g, pregame, feed) ==
  LET built == CachePlaysFrom(g, feed, 1, pregame[1], pregame[2])
  IN  [raised |-> built.raised,
       value |-> [pregame_home_wp |-> pregame[1], pregame_away_wp |-> pregame[2],
                  plays |-> built.plays, play_count |-> Len(built.plays)]]

\* build_cache_meta: team_meta holds the header's competitors.
BuildCacheMeta(g, wp_threshold) ==
  [cache_version |-> CACHE_VERSION,
   status |-> "final",
   wp_threshold |-> wp_threshold,
   home_team |-> [id |-> g.home, abbr |-> g.abbr[g.home]],
   away_team |-> [id |-> g.away, abbr |-> g.abbr[g.away]]]

\* build_cache_stats
BuildCacheStats(stats_rows) == [rows |-> stats_rows]

\* competitive of _rebuild_expanded_details_from_cache (lines 445-458)
RebuildCompetitive(cp, wp_threshold) ==
  IF cp.quarter >= 5 THEN TRUE
  ELSE IF IsNum(cp.start_home_wp) /\ IsNum(cp.start_away_wp)
    THEN cp.start_home_wp.v < wp_threshold /\ cp.start_away_wp.v < wp_threshold
  ELSE /\ ~(IsNum(cp.home_wp) /\ cp.home_wp.v >= wp_threshold)
       /\ ~(IsNum(cp.away_wp) /\ cp.away_wp.v >= wp_threshold)

\* abbr_to_id.get(drive_team) of the rebuild: the later key wins in the dict.
RebuildTeamId(meta, drive_team) ==
  IF drive_team = meta.away_team.abbr THEN meta.away_team.id
  ELSE IF drive_team = meta.home_team.abbr THEN meta.home_team.id
  ELSE NoTeam

\* play_type of a rebuilt entry (lines 497-505)
RebuildPlayType(cp) ==
  IF cp.is_run THEN "Run"
  ELSE IF cp.is_pass THEN "Pass"
  ELSE IF cp.is_turnover THEN "Turnover"
  ELSE IF Has(LowerText(cp.text), "penalty") THEN "Penalty"
  ELSE "Unknown"

RECURSIVE RebuildFrom(_, _, _, _, _)
\* for play in plays_list (lines 439-564): the Turnovers and Explosive Plays
\* lists of each team.
RebuildFrom(expanded, plays_list, meta, wp_threshold, i) ==
  IF i > Len(plays_list) THEN expanded
  ELSE LET cp == plays_list[i]
           team_id == RebuildTeamId(meta, cp.drive_team)
           entry == [type |-> RebuildPlayType(cp), yards |-> cp.yards]
           is_explosive == /\ cp.is_offensive
                           /\ (cp.is_run /\ cp.yards >= 10) \/ (cp.is_pass /\ cp.yards >= 20)
           next ==
             IF team_id \in {NoTeam, ""} \/ ~RebuildCompetitive(cp, wp_threshold)
             THEN expanded
             ELSE [expanded EXCEPT
                     ![team_id].Turnovers = IF cp.is_turnover THEN Append(@, entry) ELSE @,
                     ![team_id].Explosive =
                        IF is_explosive
                        THEN Append(@, [entry EXCEPT !.type = IF cp.is_run THEN "Run" ELSE "Pass"])
                        ELSE @]
       IN  RebuildFrom(next, plays_list, meta, wp_threshold, i + 1)

\* _rebuild_expanded_details_from_cache(plays, meta, wp_threshold)
RebuildExpandedDetails(plays, meta, wp_threshold) ==
  RebuildFrom([t \in {meta.home_team.id, meta.away_team.id} |-> NoDetails],
              plays.plays, meta, wp_threshold, 1)

\* The modelled columns of summary_cols and advanced_cols (lines 607-624).
SummaryTable(rows) ==
  [t \in DOMAIN rows |-> [TotalYards |-> rows[t].TotalYards, Drives |-> rows[t].Drives]]
AdvancedTable(rows) ==
  [t \in DOMAIN rows |->
     [Turnovers |-> rows[t].Turnovers, TotalYards |-> rows[t].TotalYards,
      ExplosivePlays |-> rows[t].ExplosivePlays,
      PointsPerTrip100 |-> rows[t].PointsPerTrip100,
      NonOffensivePoints |-> rows[t].NonOffensivePoints]]

\* build_payload_from_cache(meta, stats, plays, wp_threshold)
PayloadFromCache(meta, cached_stats, plays, wp_threshold) ==
  LET summary_table == SummaryTable(cached_stats.rows)
      advanced_table == AdvancedTable(cached_stats.rows)
  IN  [kind |-> "payload",
       threshold |-> wp_threshold,
       summary_table |-> summary_table,
       advanced_table |-> advanced_table,
       summary_table_full |-> summary_table,
       advanced_table_full |-> advanced_table,
       expanded_details |-> RebuildExpandedDetails(plays, meta, wp_threshold),
       expanded_details_full |-> RebuildExpandedDetails(plays, meta, One),
       from_cache |-> TRUE]

\* The store of LocalFileCache for the three keys of a game: a file holds a
\* value and is fresh until its TTL has passed.
NoFile == [file |-> FALSE]
File(v) == [file |-> TRUE, fresh |-> TRUE, value |-> v]
EmptyStore == [k \in Keys |-> NoFile]
NoValue == [none |-> TRUE]
EmptyDict == [empty |-> TRUE]

\* LocalFileCache.get: None for a missing or an expired file.
FileGet(c, k) == IF c[k].file /\ c[k].fresh THEN c[k].value ELSE NoValue

\* ... which removes the expired file.
AfterGet(c) == [k \in Keys |-> IF c[k].file /\ ~c[k].fresh THEN NoFile ELSE c[k]]

\* Python truth of a cached value: None and {} are false.
Truthy(v) == v # NoValue /\ v # EmptyDict

\* dict.get(key) on a cached record ("" stands for None).
DictGet(d, key) == IF key \in DOMAIN d THEN d[key] ELSE ""

Miss == [kind |-> "miss"]

MutGetCachedGameAnyVersion(c) ==
  LET meta == FileGet(c, "meta")
      cached_stats == FileGet(c, "stats")
      plays == FileGet(c, "plays")
  IN  IF ~Truthy(meta) \/ ~Truthy(cached_stats) \/ ~Truthy(plays) THEN Miss
      ELSE IF DictGet(meta, "status") # "final" THEN Miss
      ELSE [kind |-> "hit", meta |-> meta, stats |-> cached_stats, plays |-> plays]

\* get_cached_game
GetCachedGameResult(c) ==
  LET meta == FileGet(c, "meta")
      cached_stats == FileGet(c, "stats")
      plays == FileGet(c, "plays")
  IN  IF ~Truthy(meta) \/ ~Truthy(cached_stats) \/ ~Truthy(plays) THEN Miss
      ELSE IF DictGet(meta, "cache_version") # CACHE_VERSION THEN Miss
      ELSE IF DictGet(meta, "status") # "final" THEN Miss
      ELSE [kind |-> "hit", meta |-> meta, stats |-> cached_stats, plays |-> plays]

\* cache_game: mset writes key by key; `written` are the keys whose write
\* succeeds.
CacheGame(meta, cached_stats, plays, written) ==
  cache' = [k \in Keys |->
              IF k \notin written THEN cache[k]
              ELSE File(CASE k = "meta" -> meta
                          [] k = "stats" -> cached_stats
                          [] OTHER -> plays)]

\* A caller reads the triad of the game.
GetCachedGame ==
  /\ pc = "idle"
  /\ payload' = GetCachedGameResult(cache)
  /\ cache' = AfterGet(cache)
  /\ pc' = "got"
  /\ UNCHANGED <<inp, out, foldVars>>

\* The TTL of a cached file passes.
Expire ==
  /\ pc \in {"idle", "got"}
  /\ \E k \in Keys :
       /\ cache[k].file /\ cache[k].fresh
       /\ cache' = [cache EXCEPT ![k].fresh = FALSE]
  /\ pc' = "idle"
  /\ UNCHANGED <<inp, out, foldVars, payload>>

\* A caller serves the cached game at the threshold of the request.
BuildPayloadFromCache ==
  /\ pc = "got"
  /\ payload.kind = "hit"
  /\ payload' = PayloadFromCache(payload.meta, payload.stats, payload.plays, game.thr)
  /\ pc' = "served"
  /\ UNCHANGED <<inp, out, foldVars, cache>>

-----------------------------------------------------------------------------
(* Input universes *)

\* Win-probability values: 0, 0.025, 0.5, just below / at / above the default
\* threshold, just below 1.0 and 1.0.
WPNums == {0, 2500, 50000, 97400, 97500, 98500, 100000}
Thresholds == {50000, 97500, 100000}
Periods == {0, 2, 4, 5, 6}

WPVals == {Num(n) : n \in WPNums} \cup {NoneV}
EntryVals == WPVals \cup {Missing}
ProbEntries == {NoProb} \cup {Prob(h, a) : h \in EntryVals, a \in EntryVals}

NoGame == [teams |-> <<>>, abbr |-> <<>>, home |-> NoTeam, away |-> NoTeam, thr |-> 0]
NoPayload == [kind |-> "none"]
NoTracker == [prev_home |-> NoneV, prev_away |-> NoneV, walk_home |-> NoneV,
              walk_away |-> NoneV, sp_home |-> 0, sp_away |-> 0, n |-> 0]
NoLast == [verdict |-> "none"]

IdleFold ==
  /\ game = NoGame /\ stats = <<>> /\ details = <<>>
  /\ tracker = NoTracker /\ drv = NoDrive /\ last = NoLast

IdleCache == cache = EmptyStore /\ payload = NoPayload

NoSp == [in |-> FALSE, team |-> NoTeam, home |-> 0, away |-> 0, stype |-> ""]

\* A first-and-ten pass with every optional field of the feed absent.
BasePlay ==
  [hasId |-> TRUE, prob |-> NoProb, period |-> 1, text |-> <<"pass">>,
   type |-> "Pass", yards |-> 0, down |-> 1, distance |-> 10, yte |-> NoYte,
   startTeam |-> NoTeam, endTeam |-> NoTeam, teamAbbr |-> "",
   penStatus |-> "", penType |-> "", enforcedYte |-> NoYte,
   scoringPlay |-> FALSE, scoreValue |-> 0, statHints |-> {}, sp |-> NoSp,
   nulls |-> {}]

\* Box score of AAA (id 1, home) and BBB (id 2, away), and the threshold.
TwoTeamGame(thr) ==
  [teams |-> <<"1", "2">>, abbr |-> [t \in {"1", "2"} |-> IF t = "1" THEN "AAA" ELSE "BBB"],
   home |-> "1", away |-> "2", thr |-> thr]

\* pregame_probabilities after sanitize_prob (lines 376-397); a null away
\* value falls back to 1 - home.
InitTracker(preg_home, preg_away) ==
  LET h == IF IsNum(preg_home) THEN SanitizeProb(preg_home.v) ELSE Half
      a == IF IsNum(preg_away) THEN SanitizeProb(preg_away.v) ELSE One - h
  IN  [prev_home |-> Num(h), prev_away |-> Num(a),
       walk_home |-> Num(h), walk_away |-> Num(a),
       sp_home |-> 0, sp_away |-> 0, n |-> 0]

\* State of process_game_stats when the fold begins (lines 370-560).
InitialRun(g, pregame) ==
  RunState([t \in TeamSet(g) |-> ZeroStats], [t \in TeamSet(g) |-> NoDetails],
           InitTracker(pregame[1], pregame[2]), NoDrive, "fold")

InitFold(G, Pregames) ==
  /\ game \in G
  /\ \E pg \in Pregames :
       /\ inp = [open |-> TRUE, feed |-> <<>>, pregame |-> pg]
       /\ stats = InitialRun(game, pg).stats
       /\ details = InitialRun(game, pg).details
       /\ tracker = InitialRun(game, pg).tracker
       /\ drv = InitialRun(game, pg).drv
       /\ pc = InitialRun(game, pg).pc
  /\ out = <<>>
  /\ last = NoLast
  /\ IdleCache

RECURSIVE Replay(_, _, _, _)
\* process_game_stats on the drives of a feed, from entry i on.
Replay(g, s, feed, i) ==
  IF s.pc = "raised" THEN s
  ELSE IF i > Len(feed) THEN (IF s.drv.active THEN EndDriveStep(s) ELSE s)
  ELSE LET e == feed[i]
           closed == IF s.drv.active THEN EndDriveStep(s) ELSE s
           s0 == IF e.first THEN StartDriveStep(closed, e.team, e.start_yte) ELSE s
       IN  Replay(g, PlayStep(g, s0, e.play).state, feed, i + 1)

\* process_game_stats(raw_data, expanded=True, probability_map,
\* pregame_probabilities, wp_threshold) on the feed read so far.
ProcessGameStats(g, pregame, feed, wp_threshold) ==
  Replay([g EXCEPT !.thr = wp_threshold], InitialRun(g, pregame), feed, 1)

-----------------------------------------------------------------------------
(* Specification SpecComp: is_competitive_play applied to bounded inputs *)

InitComp ==
  /\ pc = "call"
  /\ IdleFold
  /\ IdleCache
  /\ inp \in [period : Periods, prob : ProbEntries, thr : Thresholds,
              sh : WPVals, sa : WPVals]
  /\ out = FALSE

CallIsCompetitive ==
  /\ pc = "call"
  /\ out' = IsCompetitivePlay(inp.period, inp.prob, inp.thr, inp.sh, inp.sa)
  /\ pc' = "returned"
  /\ UNCHANGED <<inp, foldVars, cacheVars>>

NextComp == CallIsCompetitive

SpecComp == InitComp /\ [][NextComp]_vars

\* The claim's notion of a competitive boundary: max(home, away) < threshold.
BoundaryKnown(h, a) == IsNum(h) /\ IsNum(a)
BoundaryCompetitive(h, a, thr) == Max2(h.v, a.v) < thr
InpEndHome == GetOr(inp.prob.home, Num(Half))
InpEndAway == GetOr(inp.prob.away, Num(Half))
InpStartKnown == BoundaryKnown(inp.sh, inp.sa)
InpEndKnown == inp.prob.has /\ BoundaryKnown(InpEndHome, InpEndAway)

\* C1: is_competitive_play returns true in period >= 5; otherwise the OR of the
\* two boundaries when both are known, the single known boundary's verdict when
\* one is known, and true when neither is known.
C1_CompetitiveContract ==
  pc = "returned" =>
    out = IF inp.period >= 5 THEN TRUE
          ELSE IF InpStartKnown /\ InpEndKnown
            THEN BoundaryCompetitive(inp.sh, inp.sa, inp.thr)
                 \/ BoundaryCompetitive(InpEndHome, InpEndAway, inp.thr)
          ELSE IF InpStartKnown
            THEN BoundaryCompetitive(inp.sh, inp.sa, inp.thr)
          ELSE IF InpEndKnown
            THEN BoundaryCompetitive(InpEndHome, InpEndAway, inp.thr)
          ELSE TRUE

\* Witness: a regulation play, non-competitive at its start and competitive at
\* its end (the swing play), judged competitive.
C1_Witness ==
  /\ pc = "returned"
  /\ inp.period = 4
  /\ InpStartKnown /\ InpEndKnown
  /\ ~BoundaryCompetitive(inp.sh, inp.sa, inp.thr)
  /\ BoundaryCompetitive(InpEndHome, InpEndAway, inp.thr)
  /\ out = TRUE

-----------------------------------------------------------------------------
(* Specification SpecTurnover: the fold on feeds whose last play is drawn   *)
(* from texts, type tags and end teams that exercise the turnover block.    *)

DefaultThreshold == 97500

\* A play whose end-of-play entry puts the home side above the default threshold.
BlowoutPlay == [BasePlay EXCEPT !.prob = Prob(Num(98500), Num(1500)), !.period = 2]
PrefixPlays == {BlowoutPlay}

ReversedParts == {<<>>, <<"INTERCEPTED", "REVERSED">>, <<"FUMBLES", "OVERTURNED">>}
KindParts == {<<>>, <<"pass incomplete">>, <<"punts">>, <<"TWO-POINT CONVERSION ATTEMPT">>}
InterceptParts == {<<>>, <<"INTERCEPTED">>}
FumbleParts == {<<>>, <<"FUMBLES">>, <<"MUFFED punt">>}
RecoveryParts == {<<>>, <<"RECOVERED by AAA">>, <<"RECOVERED by BBB">>, <<"and recovers">>}
TouchbackParts == {<<>>, <<"Touchback">>}

TurnoverTexts ==
  {r \o k \o i \o f \o c \o t :
     r \in ReversedParts, k \in KindParts, i \in InterceptParts,
     f \in FumbleParts, c \in RecoveryParts, t \in TouchbackParts}

TurnoverTags == {"Pass", "Pass Interception Return", "Fumble Recovery (Own)",
                 "Fumble Recovery (Opponent)", "Muffed Punt Recovery"}

TurnoverPlays ==
  {[BasePlay EXCEPT !.period = 2, !.text = x, !.type = y, !.endTeam = e] :
     x \in TurnoverTexts, y \in TurnoverTags, e \in {NoTeam, "1", "2"}}

InitTurnover == InitFold({TwoTeamGame(DefaultThreshold)}, {<<NoneV, NoneV>>})

StartDriveTurnover == StartDrive("1", 75)
ProcessPlayTurnover == ProcessPlay(PrefixPlays)
ProcessLastPlayTurnover == ProcessLastPlay(TurnoverPlays)

NextTurnover ==
  \/ StartDriveTurnover
  \/ ProcessPlayTurnover
  \/ ProcessLastPlayTurnover
  \/ EndDrive
  \/ Finish

SpecTurnover == InitTurnover /\ [][NextTurnover]_vars

\* The last play read, its resolved text, and what the fold did with it.
Played == last.verdict # "none"
LastText == LowerText(FinalPlayText(last.play.text))
LastTag == Lower(last.play.type)
TurnoversAdded(t) == stats[t].Turnovers - last.before[t].Turnovers
TurnoverDetailsAdded(t) ==
  SubSeq(details[t].Turnovers, Len(last.details_before[t].Turnovers) + 1,
         Len(details[t].Turnovers))

\* C4: a play whose resolved text marks a two-point-conversion attempt adds
\* nothing to any team's Turnovers counter or Turnovers detail list, whatever
\* the text and the type tag contain.
C4_TwoPointNeverTurnover ==
  (Played /\ IsTwoPointConversionAttempt(LastText))
    => \A t \in DOMAIN stats :
         /\ TurnoversAdded(t) = 0
         /\ TurnoverDetailsAdded(t) = <<>>

\* A counted two-point attempt whose text holds an interception keyword.
C4_Witness ==
  /\ Played
  /\ last.verdict = "counted"
  /\ IsTwoPointConversionAttempt(LastText)
  /\ Has(LastText, "intercept")
  /\ Has(LastText, "fumble")
  /\ LastTag = "pass interception return"

HasReversal == last.play.text # FinalPlayText(last.play.text)

CleanIncompletion(text_lower) ==
  /\ text_lower # <<>>
  /\ \A i \in 1..Len(text_lower) : text_lower[i] = "pass incomplete"

NoTurnoverOnLast ==
  /\ last.events = <<>>
  /\ \A t \in DOMAIN stats : TurnoversAdded(t) = 0 /\ TurnoverDetailsAdded(t) = <<>>

\* C5 as stated: a play whose text after the last REVERSED/OVERTURNED marker is
\* a clean incompletion yields zero turnover events for both teams, whatever
\* the text before the marker and the type tag are.
C5_ReversedIncompletionAnyTag ==
  (Played /\ HasReversal /\ CleanIncompletion(LastText)) => NoTurnoverOnLast

\* C5 amended: a play whose text after the last REVERSED/OVERTURNED marker is a
\* clean incompletion and whose type tag does not contain 'muff' yields zero
\* turnover events for both teams, even when the text before the marker
\* contains 'intercepted' or the type tag names an interception.
C5_ReversedIncompletion ==
  (Played /\ HasReversal /\ CleanIncompletion(LastText) /\ ~TagHas(LastTag, "muff"))
    => NoTurnoverOnLast

\* A counted play "INTERCEPTED ... REVERSED. pass incomplete" tagged as an
\* interception return.
C5_Witness ==
  /\ Played
  /\ last.verdict = "counted"
  /\ HasReversal
  /\ CleanIncompletion(LastText)
  /\ Has(LowerText(last.play.text), "intercept")
  /\ TagHas(LastTag, "interception")
  /\ NoTurnoverOnLast

\* Team A of a play (its start team, else the team of the drive) and its opponent.
LastA == StartTeamId(last.play, last.team)
LastB == OpponentId(game, LastA)

\* The text holds an interception, later a fumble, later "recovered by" abbr.
InterceptThenFumbleRecoveredBy(text_lower, abbr) ==
  \E i, j, k \in 1..Len(text_lower) :
    /\ i < j /\ j < k
    /\ "intercept" \in TokKW(text_lower[i])
    /\ "fumble" \in TokKW(text_lower[j])
    /\ RecoveredAbbrOf(text_lower[k]) = abbr

\* A scrimmage pass: no two-point, kick or muff wording in the resolved text,
\* no muff in the type tag.
ScrimmageText(text_lower, type_lower) ==
  /\ ~IsTwoPointConversionAttempt(text_lower)
  /\ \A kw \in {"punts", "kickoff", "onside", "muffed punt", "muffed kick"} :
       ~Has(text_lower, kw)
  /\ ~TagHas(type_lower, "muff") /\ ~TagHas(type_lower, "kickoff")

\* C6: in a two-team game, a competitive scrimmage play started by team A whose
\* resolved text contains an interception followed by a fumble recovered by A
\* records exactly the events (A, interception) then (B, fumble), and adds
\* exactly 1 to the Turnovers counter of each team.
C6_InterceptionThenFumble ==
  (/\ Played
   /\ last.verdict = "counted"
   /\ Len(game.teams) = 2
   /\ LastA \in TeamSet(game)
   /\ ScrimmageText(LastText, LastTag)
   /\ InterceptThenFumbleRecoveredBy(LastText, AbbrOf(game, LastA)))
    => /\ last.events = <<Ev(LastA, "interception"), Ev(LastB, "fumble")>>
       /\ TurnoversAdded(LastA) = 1
       /\ TurnoversAdded(LastB) = 1

-----------------------------------------------------------------------------
(* Specification SpecWP: the fold on feeds that vary the win-probability    *)
(* entries, the threshold, the period and the scoring-list entries.         *)

CertainPlay == [BasePlay EXCEPT !.prob = Prob(Num(One), Num(0)), !.period = 4]
EvenPlay == [BasePlay EXCEPT !.prob = Prob(Num(Half), Num(Half)), !.period = 2]
WPPrefixPlays == {BlowoutPlay, CertainPlay, EvenPlay}

WPHomeVals == {Num(Half), Num(98500), Num(One), Missing, NoneV}
WPAwayVals == {Num(Half), Num(1500), Num(0), Missing}
WPEntries == {NoProb} \cup {Prob(h, a) : h \in WPHomeVals, a \in WPAwayVals}

\* Scoring-list entries: a touchdown of team 2, a touchdown of team 1.
WPScoring ==
  {[in |-> TRUE, team |-> "2", home |-> 0, away |-> 7, stype |-> "touchdown"],
   [in |-> TRUE, team |-> "1", home |-> 7, away |-> 0, stype |-> "touchdown"]}

\* Plays and markers with every entry; scoring plays; a play without id.
WPPlays ==
  {[BasePlay EXCEPT !.prob = e, !.period = q, !.type = y] :
     e \in WPEntries, q \in {4, 5}, y \in {"Pass", "Timeout"}}
  \cup
  {[BasePlay EXCEPT !.prob = e, !.period = q, !.sp = c, !.scoringPlay = TRUE,
                    !.scoreValue = 7] :
     e \in {NoProb, Prob(Num(One), Num(0)), Prob(Num(Half), Num(Half))},
     q \in {4, 5}, c \in WPScoring}
  \cup
  {[BasePlay EXCEPT !.prob = Prob(Num(One), Num(0)), !.period = 4, !.hasId = FALSE]}

InitWP ==
  InitFold({TwoTeamGame(DefaultThreshold), TwoTeamGame(One)},
           {<<NoneV, NoneV>>, <<Num(98500), NoneV>>})

StartDriveWP == StartDrive("1", 75)
ProcessPlayWP == ProcessPlay(WPPrefixPlays)
ProcessLastPlayWP == ProcessLastPlay(WPPlays)

NextWP ==
  \/ StartDriveWP
  \/ ProcessPlayWP
  \/ ProcessLastPlayWP
  \/ EndDrive
  \/ Finish

SpecWP == InitWP /\ [][NextWP]_vars

\* C2: in a run at wp_threshold = 1.0 no play of the drive fold and no scoring
\* play of the Non-Offensive Points pass is skipped as non-competitive.
C2_FullRunUnfiltered ==
  (Played /\ game.thr = One)
    => (last.verdict # "noncompetitive" /\ ~last.sp_skipped)

\* C3 as stated: a play whose id has no entry in the probability map is never
\* skipped by the competitive filter of the fold.
C3_NoEntryAlwaysCompetitive ==
  (Played /\ last.play.hasId /\ ~last.play.prob.has)
    => last.verdict # "noncompetitive"

\* C3 amended: a play whose id has no entry in the probability map is judged on
\* the win probability carried over from the earlier plays (the pregame value
\* before any entry): past the marker and nullified checks it is counted when
\* its period is >= 5 or max(home, away) of the carried value is below the
\* threshold, and skipped as non-competitive otherwise.
C3_NoEntryJudgedOnStart ==
  (Played /\ last.play.hasId /\ ~last.play.prob.has
     /\ last.verdict \in {"noncompetitive", "counted"})
    => /\ IsNum(last.start_home) /\ IsNum(last.start_away)
       /\ (last.verdict = "counted")
            <=> (\/ last.play.period >= 5
                 \/ Max2(last.start_home.v, last.start_away.v) < game.thr)

\* A play without entry that the fold skips: regulation time, after a play
\* that ended above the threshold.
C3_Witness ==
  /\ Played
  /\ last.play.hasId /\ ~last.play.prob.has
  /\ last.play.period < 5
  /\ tracker.n > 1
  /\ last.start_home = Num(98500)
  /\ game.thr = DefaultThreshold
  /\ last.verdict = "noncompetitive"

-----------------------------------------------------------------------------
(* Specification SpecYards: the fold on drives of passes and rushes of      *)
(* varying length, down and scoring value, without win-probability data.    *)

\* "Pass for 25 yards" on 1st-and-10, and a 3-yard rush.
Pass25 == [BasePlay EXCEPT !.hasId = FALSE, !.yards = 25]
Rush3 == [BasePlay EXCEPT !.hasId = FALSE, !.yards = 3, !.type = "Rush",
                          !.text = <<"up the middle">>]
YardsPrefixPlays == {Pass25, Rush3}

\* A pass, a touchdown pass worth 7 points, a rush.
YardsKinds ==
  {[type |-> "Pass", text |-> <<"pass">>, score |-> 0],
   [type |-> "Pass", text |-> <<"TOUCHDOWN", "pass">>, score |-> 7],
   [type |-> "Rush", text |-> <<"up the middle">>, score |-> 0]}

YardsPlays ==
  {[BasePlay EXCEPT !.hasId = FALSE, !.yards = y, !.down = d, !.type = k.type,
                    !.text = k.text, !.scoringPlay = (k.score > 0),
                    !.scoreValue = k.score] :
     y \in {3, 4, 10, 19, 20, 25}, d \in {1, 3}, k \in YardsKinds}

\* "Touchdown pass" for 20 yards on 1st-and-10, worth 7 points.
TouchdownPass20 ==
  [BasePlay EXCEPT !.hasId = FALSE, !.yards = 20, !.text = <<"TOUCHDOWN", "pass">>,
                   !.scoringPlay = TRUE, !.scoreValue = 7]

InitYards == InitFold({TwoTeamGame(DefaultThreshold)}, {<<NoneV, NoneV>>})

StartDriveYards == \E yte \in {NoYte, 75, 90} : StartDrive("1", yte)
ProcessPlayYards == ProcessPlay(YardsPrefixPlays)
ProcessLastPlayYards == ProcessLastPlay(YardsPlays)

NextYards ==
  \/ StartDriveYards
  \/ ProcessPlayYards
  \/ ProcessLastPlayYards
  \/ EndDrive
  \/ Finish

SpecYards == InitYards /\ [][NextYards]_vars

\* The feed was one drive of team 1: the 25-yard pass, then the 20-yard
\* touchdown pass, and the run has returned.
ScenarioA ==
  /\ pc = "done"
  /\ Len(inp.feed) = 2
  /\ inp.feed[1].play = Pass25 /\ inp.feed[1].first /\ inp.feed[1].team = "1"
  /\ inp.feed[2].play = TouchdownPass20 /\ ~inp.feed[2].first

\* The running estimate of the drive reaches the opponent's 40 within the 45
\* yards gained: the drive start is absent (-1) or at most 85 yards out.
ReachesInside40 == inp.feed[1].start_yte <= 85

ScenarioATotals ==
  /\ out["1"].TotalYards = 45
  /\ stats["1"].Plays = 2
  /\ stats["1"].Successful = 2

-----------------------------------------------------------------------------
(* Specification SpecStore: get_cached_game over every content of the three *)
(* files of a game.                                                          *)

Versions == {CACHE_VERSION, "1.2", ""}
Statuses == {"final", "in_progress", ""}
MetaValues ==
  {EmptyDict} \cup {[cache_version |-> v, status |-> st] : v \in Versions, st \in Statuses}
StatsValues == {EmptyDict, [rows |-> <<>>]}
PlaysValues == {EmptyDict, [plays |-> <<>>, play_count |-> 0]}

InitStore ==
  /\ pc = "idle"
  /\ IdleFold
  /\ inp = [open |-> FALSE, feed |-> <<>>, pregame |-> <<NoneV, NoneV>>]
  /\ out = <<>>
  /\ IdleCache

\* cache_game with any triad, any of the three writes failing.
StoreGame ==
  /\ pc \in {"idle", "got"}
  /\ \E m \in MetaValues, cs \in StatsValues, p \in PlaysValues, written \in SUBSET Keys :
       CacheGame(m, cs, p, written)
  /\ pc' = "idle"
  /\ UNCHANGED <<inp, out, foldVars, payload>>

NextStore ==
  \/ StoreGame
  \/ Expire
  \/ GetCachedGame

SpecStore == InitStore /\ [][NextStore]_vars

\* The record of key k is present: its file exists and has not expired.
Present(k) == cache[k].file /\ cache[k].fresh
AllPresent == \A k \in Keys : Present(k)
VersionMatches == DictGet(cache["meta"].value, "cache_version") = CACHE_VERSION
StatusFinal == DictGet(cache["meta"].value, "status") = "final"
Trusted == AllPresent /\ VersionMatches /\ StatusFinal
NoneEmpty == \A k \in Keys : cache[k].value # EmptyDict

\* C10: after get_cached_game returns, a triad was returned only if all three
\* records are present, meta carries the current cache version and the status
\* "final"; in every other case the result is None. The triad returned is the
\* stored one, and it is returned exactly when, in addition, no record is an
\* empty object.
C10_CachedGameTrust ==
  pc = "got" =>
    /\ payload.kind = "hit" => Trusted
    /\ ~Trusted => payload = Miss
    /\ payload.kind = "hit" <=> (Trusted /\ NoneEmpty)
    /\ payload.kind = "hit" =>
         /\ payload.meta = cache["meta"].value
         /\ payload.stats = cache["stats"].value
         /\ payload.plays = cache["plays"].value

C10_Witness ==
  /\ pc = "got"
  /\ payload.kind = "hit"
  /\ payload.meta.cache_version = CACHE_VERSION
  /\ payload.meta.status = "final"


-----------------------------------------------------------------------------
(* Specification SpecCache: a game is analysed, its triad is cached, read   *)
(* back and served from the cache.                                           *)

EvenProb == Prob(Num(Half), Num(Half))

\* Pass intercepted by BBB, fumbled on the return, recovered by AAA.
InterceptionFumblePlay ==
  [BasePlay EXCEPT !.period = 2,
                   !.text = <<"pass", "INTERCEPTED", "FUMBLES", "RECOVERED by AAA">>]

CacheTexts ==
  {[type |-> "Pass", text |-> <<"pass">>],
   [type |-> "Rush", text |-> <<"up the middle">>],
   [type |-> "Pass", text |-> <<"pass", "INTERCEPTED">>],
   [type |-> "Rush", text |-> <<"up the middle", "FUMBLES", "RECOVERED by smith">>]}

CachePlays ==
  {InterceptionFumblePlay} \cup
  {[BasePlay EXCEPT !.hasId = h, !.prob = pr, !.period = 2, !.yards = y,
                    !.type = k.type, !.text = k.text] :
     h \in BOOLEAN, pr \in {NoProb, EvenProb}, y \in {5, 15, 25}, k \in CacheTexts}

CachePrefixPlays == {[BlowoutPlay EXCEPT !.yards = 25]}

InitCache ==
  InitFold({TwoTeamGame(DefaultThreshold), TwoTeamGame(One)},
           {<<NoneV, NoneV>>, <<Num(Half), Num(Half)>>})

StartDriveCache == StartDrive("1", 75)
ProcessPlayCache == ProcessPlay(CachePrefixPlays)
ProcessLastPlayCache == ProcessLastPlay(CachePlays)

\* The two runs of a fresh analysis: filtered at the requested threshold, and
\* full at threshold 1.0.
FilteredRows == out
FullRun == ProcessGameStats(game, inp.pregame, inp.feed, One)
FullRows == FinalRows(FullRun.stats)

\* The finished game is cached: meta, the statistics rows of one of the two
\* runs, and the plays; build_cache_plays may raise.
CacheFinishedGame ==
  /\ pc = "done"
  /\ \E built \in {BuildCachePlays(game, inp.pregame, inp.feed)} :
         IF built.raised
         THEN pc' = "raised" /\ UNCHANGED cache
         ELSE /\ \E rows \in {FilteredRows, FullRows} :
                   CacheGame(BuildCacheMeta(game, game.thr), BuildCacheStats(rows),
                             built.value, Keys)
              /\ pc' = "idle"
  /\ UNCHANGED <<inp, out, foldVars, payload>>

NextCache ==
  \/ StartDriveCache
  \/ ProcessPlayCache
  \/ ProcessLastPlayCache
  \/ EndDrive
  \/ Finish
  \/ CacheFinishedGame
  \/ Expire
  \/ GetCachedGame
  \/ BuildPayloadFromCache

SpecCache == InitCache /\ [][NextCache]_vars

\* The game was served from the cache.
Served == pc = "served" /\ payload.kind = "payload"

\* C8: when the fresh run was made at threshold 1.0, the expanded details
\* rebuilt from the cached triad at threshold 1.0 hold, for each team, as many
\* Turnovers entries and as many Explosive Plays entries as the fresh run's
\* expanded details.
C8_RebuildMatchesFreshRun ==
  (Served /\ game.thr = One) =>
    \A t \in TeamSet(game) :
      /\ Len(payload.expanded_details_full[t].Turnovers) = Len(details[t].Turnovers)
      /\ Len(payload.expanded_details_full[t].Explosive) = Len(details[t].Explosive)

\* C9: a payload served from the cache carries the filtered statistics in
\* summary_table/advanced_table and the statistics of the full run in
\* summary_table_full/advanced_table_full.
C9_PayloadCarriesBothRuns ==
  Served =>
    /\ payload.summary_table = SummaryTable(FilteredRows)
    /\ payload.advanced_table = AdvancedTable(FilteredRows)
    /\ payload.summary_table_full = SummaryTable(FullRows)
    /\ payload.advanced_table_full = AdvancedTable(FullRows)

-----------------------------------------------------------------------------
(* Specification SpecMalformed: the fold on feeds whose last play has one    *)
(* field null or absent.                                                     *)

\* A well-formed 5-yard pass on 1st-and-10 with an even end-of-play entry.
GoodPlay == [BasePlay EXCEPT !.prob = EvenProb, !.period = 2, !.yards = 5]

\* The fields of a play that the claim lets be null.
NullableFields == {"text", "type", "start", "end", "penalty", "statYardage", "period"}

\* GoodPlay with one field null; with its text absent (''), its type absent
\* ('Unknown'); with a null or absent percentage in its probability entry.
MalformedPlays ==
  {[GoodPlay EXCEPT !.nulls = {f}] : f \in NullableFields}
  \cup {[GoodPlay EXCEPT !.text = <<>>], [GoodPlay EXCEPT !.type = "Unknown"]}
  \cup {[GoodPlay EXCEPT !.prob = Prob(h, a)] :
          h \in {Num(Half), NoneV, Missing}, a \in {Num(Half), NoneV, Missing}}

Malformed(play) ==
  \/ play.nulls # {}
  \/ play.text = <<>>
  \/ play.type = "Unknown"
  \/ play.prob.has /\ (~IsNum(play.prob.home) \/ ~IsNum(play.prob.away))

InitMalformed == InitFold({TwoTeamGame(DefaultThreshold)}, {<<NoneV, NoneV>>})

StartDriveMalformed == \E yte \in {NoYte, 75} : StartDrive("1", yte)
ProcessPlayMalformed == ProcessPlay({GoodPlay, Rush3})
ProcessLastPlayMalformed == ProcessLastPlay(MalformedPlays)

NextMalformed ==
  \/ StartDriveMalformed
  \/ ProcessPlayMalformed
  \/ ProcessLastPlayMalformed
  \/ EndDrive
  \/ Finish

SpecMalformed == InitMalformed /\ [][NextMalformed]_vars

\* C11: process_game_stats raises no error on a feed with one malformed play (a
\* null or absent text, type, start, end, penalty, statYardage or period, or a
\* probability entry with a null or absent percentage), and the malformed play
\* adds nothing to the counters.
C11_MalformedPlayTolerated ==
  (Played /\ Malformed(last.play)) => (pc # "raised" /\ stats = last.before)

-----------------------------------------------------------------------------
(* Specification SpecDrive: the fold on drives that start at varying yard    *)
(* lines and mix counted plays, markers, nullified plays, plays outside the  *)
(* competitive window and scoring plays.                                     *)

\* An end-of-play entry outside [0, 1]: 1.5 / -0.5.
WildProb == Prob(Num(150000), Num(-50000))

DriveProbs == {NoProb, EvenProb, Prob(Num(98500), Num(1500)), WildProb}

\* A 5-yard pass, a 40-yard pass, a timeout, a play wiped out by a penalty.
DriveKinds ==
  {[type |-> "Pass", text |-> <<"pass">>, yards |-> 5],
   [type |-> "Pass", text |-> <<"pass">>, yards |-> 40],
   [type |-> "Timeout", text |-> <<"Timeout">>, yards |-> 0],
   [type |-> "Pass", text |-> <<"pass", "PENALTY", "No Play">>, yards |-> 5]}

\* Not a scoring play; a touchdown listed in scoringPlays for team 1 (home)
\* and for team 2 (away); a scoring play absent from scoringPlays.
DriveScores ==
  {[scoringPlay |-> FALSE, scoreValue |-> 0, sp |-> NoSp],
   [scoringPlay |-> TRUE, scoreValue |-> 6,
    sp |-> [in |-> TRUE, team |-> "1", home |-> 7, away |-> 0, stype |-> "touchdown"]],
   [scoringPlay |-> TRUE, scoreValue |-> 6,
    sp |-> [in |-> TRUE, team |-> "2", home |-> 0, away |-> 7, stype |-> "touchdown"]],
   [scoringPlay |-> TRUE, scoreValue |-> 6, sp |-> NoSp]}

DrivePlays ==
  {[BasePlay EXCEPT !.period = 2, !.prob = e, !.type = k.type, !.text = k.text,
                    !.yards = k.yards, !.scoringPlay = c.scoringPlay,
                    !.scoreValue = c.scoreValue, !.sp = c.sp] :
     e \in DriveProbs, k \in DriveKinds, c \in DriveScores}

DrivePrefixPlays == {GoodPlay, BlowoutPlay}

\* Pregame probabilities: absent, a blowout, and a pair outside [0, 1].
InitDrive ==
  InitFold({TwoTeamGame(DefaultThreshold)},
           {<<NoneV, NoneV>>, <<Num(98500), NoneV>>, <<Num(150000), Num(-50000)>>})

StartDriveDrive == \E yte \in {NoYte, 75, 35} : StartDrive("1", yte)
ProcessPlayDrive == ProcessPlay(DrivePrefixPlays)
ProcessLastPlayDrive == ProcessLastPlay(DrivePlays)

NextDrive ==
  \/ StartDriveDrive
  \/ ProcessPlayDrive
  \/ ProcessLastPlayDrive
  \/ EndDrive
  \/ Finish

SpecDrive == InitDrive /\ [][NextDrive]_vars

\* The counters C12 names.
PlayCounters(st) ==
  [t \in DOMAIN st |->
     [Plays |-> st[t].Plays, OffYards |-> st[t].OffYards,
      TotalYards |-> st[t].TotalYards, Successful |-> st[t].Successful,
      Explosive |-> st[t].Explosive, Turnovers |-> st[t].Turnovers,
      DrivesCount |-> st[t].DrivesCount,
      StartFieldPosSum |-> st[t].StartFieldPosSum]]

\* C12: a play that is a timeout or end-of-period marker, a nullified play or
\* a non-competitive play changes none of Plays, Offensive Yards, Total Yards,
\* Successful Plays, Explosive Plays, Turnovers, Drives Count and Start Field
\* Pos Sum of any team.
C12_SkippedPlayChangesNoCounter ==
  (Played /\ last.verdict \in {"marker", "nullified", "noncompetitive"})
    => PlayCounters(stats) = PlayCounters(last.before)

\* The drive-level counters of a team.
StartCounters(st, t) == <<st[t].DrivesCount, st[t].StartFieldPosSum>>
TripCounters(st, t) == <<st[t].DrivePoints, st[t].DrivesInside40, st[t].PointsInside40>>

\* C13: a drive adds at most 1 to its team's Drives Count: the count and Start
\* Field Pos Sum change only on the first play of a drive, for the drive's team,
\* by one drive, and only when that play is competitive; the verdict on the
\* first play stays with the drive; the drive's points grow only in a drive
\* that started competitive, and Drive Points, Drives Inside 40 and Points
\* Inside 40 change only at the end of such a drive.
C13_DriveContribution ==
  [][\A t \in DOMAIN stats :
       /\ StartCounters(stats', t) # StartCounters(stats, t)
            => /\ drv.active /\ ~drv.first_checked /\ t = drv.team
               /\ drv'.first_checked /\ drv'.started_comp
               /\ last'.competitive
               /\ stats'[t].DrivesCount = stats[t].DrivesCount + 1
       /\ TripCounters(stats', t) # TripCounters(stats, t)
            => /\ drv.active /\ drv.started_comp /\ t = drv.team
               /\ ~drv'.active
               /\ stats'[t].DrivesInside40 <= stats[t].DrivesInside40 + 1
       /\ (drv.active /\ drv.first_checked /\ drv'.active)
            => /\ drv'.first_checked
               /\ drv'.started_comp = drv.started_comp
       /\ (drv.active /\ drv'.active /\ drv'.points # drv.points)
            => drv'.started_comp
    ]_vars

\* A drive of team 1 from its own 25 that opened outside the competitive
\* window, later scored a listed touchdown on a competitive 40-yard pass, and
\* ended without a drive, a point or a trip counted.
C13_Witness ==
  /\ Played
  /\ ~drv.active
  /\ Len(inp.feed) = 2
  /\ inp.feed[1].first /\ inp.feed[1].play = BlowoutPlay /\ inp.feed[1].start_yte = 35
  /\ inp.pregame = <<Num(98500), NoneV>>
  /\ ~inp.feed[2].first
  /\ last.verdict = "counted"
  /\ last.play.scoringPlay /\ last.play.sp.in /\ last.play.sp.team = "1"
  /\ last.play.yards = 40
  /\ stats["1"].TotalYards = 40
  /\ StartCounters(stats, "1") = <<0, 0>>
  /\ TripCounters(stats, "1") = <<0, 0, 0>>

\* C14: a play adds points to the points of the drive (which the end of the
\* drive adds to Drive Points and Points Inside 40) only when it is a scoring
\* play whose scoring team, the team of its scoringPlays entry, is the drive's
\* offense.
C14_DrivePointsOnlyForOffense ==
  [][(drv.active /\ drv'.active /\ drv'.points # drv.points)
       => /\ last'.play.scoringPlay
          /\ last'.play.sp.in
          /\ last'.play.sp.team = drv.team
    ]_vars

InUnit(x) == IsNum(x) /\ 0 <= x.v /\ x.v <= One

\* C20: at every step of the fold prev_home_wp and prev_away_wp are numbers
\* within [0, 1].
C20_TrackerClamped ==
  pc \in {"fold", "done"} => (InUnit(tracker.prev_home) /\ InUnit(tracker.prev_away))

-----------------------------------------------------------------------------
(* Specification SpecKick: the turnover block on scrimmage plays, punts and  *)
(* onside kicks with a fumble, a muff, a recovery and a touchback, in drives  *)
(* of either team, with the play's start and end team present or absent.     *)

KickKindParts == {<<"pass">>, <<"TWO-POINT CONVERSION ATTEMPT", "pass">>,
                  <<"punts">>, <<"kicks onside">>}
KickFumbleParts == {<<>>, <<"FUMBLES">>, <<"MUFFED kick">>, <<"MUFFED kick", "FUMBLES">>}
KickRecoveryParts == {<<>>, <<"RECOVERED by AAA">>, <<"RECOVERED by BBB">>}
KickTouchbackParts == {<<>>, <<"Touchback">>}

KickTexts ==
  {k \o f \o r \o b : k \in KickKindParts, f \in KickFumbleParts,
                      r \in KickRecoveryParts, b \in KickTouchbackParts}

KickTags == {"Pass", "Kickoff", "Punt", "Fumble Recovery (Own)",
             "Fumble Recovery (Opponent)"}

KickPlays ==
  {[BasePlay EXCEPT !.period = 2, !.text = x, !.type = y,
                    !.startTeam = b, !.endTeam = e] :
     x \in KickTexts, y \in KickTags, b \in {NoTeam, "1", "2"}, e \in {NoTeam, "1", "2"}}

InitKick == InitFold({TwoTeamGame(DefaultThreshold)}, {<<NoneV, NoneV>>})

StartDriveKick == \E team \in {"1", "2"} : StartDrive(team, 75)
ProcessPlayKick == ProcessPlay({BlowoutPlay})
ProcessLastPlayKick == ProcessLastPlay(KickPlays)

NextKick ==
  \/ StartDriveKick
  \/ ProcessPlayKick
  \/ ProcessLastPlayKick
  \/ EndDrive
  \/ Finish

SpecKick == InitKick /\ [][NextKick]_vars

\* The keyword flags and the current possessor of the last play read, as the
\* turnover block computes them.
LastFlags == ScanFlags(last.play, last.team, LastText, LastTag)
LastPossession ==
  ScanPossession(game, last.play, last.team,
                 OpponentId(game, StartTeamId(last.play, last.team)), LastFlags)

\* A counted play that is no two-point attempt and whose resolved text holds
\* both 'fumble' and 'touchback'.
FumbleTouchback ==
  /\ Played
  /\ last.verdict = "counted"
  /\ ~IsTwoPointConversionAttempt(LastText)
  /\ Has(LastText, "fumble")
  /\ Has(LastText, "touchback")

ChargedTo(t) ==
  /\ \E i \in 1..Len(last.events) : last.events[i].team = t
  /\ TurnoversAdded(t) >= 1

KickingTeam ==
  IF last.play.startTeam # NoTeam THEN last.play.startTeam
  ELSE OpponentId(game, last.team)

\* C17: in a two-team game, a competitive onside kick whose text says it was
\* recovered and whose end team is the kicking team records exactly one
\* turnover, 'onside_kick_lost', charged to the receiving team (the kicking
\* team's opponent), and none charged to the kicking team.
C17_OnsideKickLost ==
  ( /\ Played
    /\ last.verdict = "counted"
    /\ Has(LastText, "onside") /\ Has(LastText, "kick")
    /\ Has(LastText, "recovered")
    /\ last.play.endTeam = KickingTeam )
    => /\ last.events = <<Ev(OpponentId(game, KickingTeam), "onside_kick_lost")>>
       /\ TurnoversAdded(OpponentId(game, KickingTeam)) = 1
       /\ TurnoversAdded(KickingTeam) = 0

-----------------------------------------------------------------------------
(* Specification SpecAlias: fumbles by the home team of a box score LAR, WSH  *)
(* or JAX against BBB, with 'recovered by' naming LA, WAS, JAC or BBB.        *)

\* Box score of a (id 1, home) and BBB (id 2, away).
AliasGame(a) ==
  [teams |-> <<"1", "2">>, abbr |-> [t \in {"1", "2"} |-> IF t = "1" THEN a ELSE "BBB"],
   home |-> "1", away |-> "2", thr |-> DefaultThreshold]

AliasRecoveryParts == {<<"RECOVERED by LA">>, <<"RECOVERED by WAS">>,
                       <<"RECOVERED by JAC">>, <<"RECOVERED by BBB">>}

AliasPlays ==
  {[BasePlay EXCEPT !.period = 2, !.text = <<k, "FUMBLES">> \o r, !.type = y,
                    !.startTeam = b, !.endTeam = e] :
     k \in {"pass", "sacked"}, r \in AliasRecoveryParts, y \in {"Pass", "Sack"},
     b \in {NoTeam, "1"}, e \in {NoTeam, "1", "2"}}

InitAlias ==
  InitFold({AliasGame(a) : a \in {"LAR", "WSH", "JAX"}}, {<<NoneV, NoneV>>})

StartDriveAlias == StartDrive("1", 75)
ProcessPlayAlias == ProcessPlay({BlowoutPlay, GoodPlay})
ProcessLastPlayAlias == ProcessLastPlay(AliasPlays)

NextAlias ==
  \/ StartDriveAlias
  \/ ProcessPlayAlias
  \/ ProcessLastPlayAlias
  \/ EndDrive
  \/ Finish

SpecAlias == InitAlias /\ [][NextAlias]_vars

\* The alias table as the specification documents it: LA, WAS, JAC stand for
\* LAR, WSH, JAX.
DocumentedAlias(abbr) ==
  CASE abbr = "la" -> "lar"
    [] abbr = "was" -> "wsh"
    [] abbr = "jac" -> "jax"
    [] OTHER -> abbr

\* A counted fumble of the drive's team whose 'recovered by' abbreviation is
\* an alias of that team's box-score abbreviation.
RecoveredUnderAlias ==
  /\ Played
  /\ last.verdict = "counted"
  /\ Has(LastText, "fumble")
  /\ RecoveredAbbr(LastText) # DocumentedAlias(RecoveredAbbr(LastText))
  /\ DocumentedAlias(RecoveredAbbr(LastText)) = AbbrOf(game, last.team)

\* C16: a 'recovered by X' abbreviation X that is an alias (LA, WAS, JAC) of
\* the fumbling team's box-score abbreviation (LAR, WSH, JAX) resolves to that
\* team, so the fumble is never charged as a turnover, whether the play's end
\* team is that team, the opponent or missing.
C16_AliasRecoveryNoTurnover ==
  RecoveredUnderAlias =>
    /\ last.events = <<>>
    /\ \A t \in DOMAIN stats : TurnoversAdded(t) = 0

-----------------------------------------------------------------------------
(* Specification SpecOffense: the offense and total-offense counters on       *)
(* passes, runs, sacks, scrambles, kneels, spikes and aborted snaps.          *)

\* A pass; a pass to a receiver whose name holds the letters 'run'; a run; a
\* sack; a scramble; a kneel; a spike; a spike flagged for intentional
\* grounding; an aborted snap fumbled and recovered; a kneel wiped out by a
\* penalty; a punt; a play with no run or pass hint.
OffenseKinds ==
  {[text |-> <<"pass">>, type |-> "Pass"],
   [text |-> <<"pass", "to Brunson">>, type |-> "Pass"],
   [text |-> <<"up the middle">>, type |-> "Rush"],
   [text |-> <<"sacked">>, type |-> "Sack"],
   [text |-> <<"scrambles", "up the middle">>, type |-> "Rush"],
   [text |-> <<"kneels">>, type |-> "Rush"],
   [text |-> <<"spiked">>, type |-> "Pass Incompletion"],
   [text |-> <<"spiked", "PENALTY", "Intentional Grounding">>, type |-> "Pass Incompletion"],
   [text |-> <<"Aborted", "FUMBLES", "and recovers">>, type |-> "Fumble Recovery (Own)"],
   [text |-> <<"kneels", "PENALTY", "No Play">>, type |-> "Rush"],
   [text |-> <<"punts">>, type |-> "Punt"],
   [text |-> <<"left the pocket">>, type |-> "Unknown"]}

OffenseYardages == {-1, 9, 10, 12, 19, 20}

OffensePlays ==
  {[BasePlay EXCEPT !.period = 2, !.prob = e, !.text = k.text, !.type = k.type,
                    !.yards = y] :
     e \in {NoProb, Prob(Num(98500), Num(1500))}, k \in OffenseKinds,
     y \in OffenseYardages}

InitOffense == InitFold({TwoTeamGame(DefaultThreshold)}, {<<NoneV, NoneV>>})

StartDriveOffense == StartDrive("1", 75)
ProcessPlayOffense == ProcessPlay({GoodPlay, Rush3})
ProcessLastPlayOffense == ProcessLastPlay(OffensePlays)

NextOffense ==
  \/ StartDriveOffense
  \/ ProcessPlayOffense
  \/ ProcessLastPlayOffense
  \/ EndDrive
  \/ Finish

SpecOffense == InitOffense /\ [][NextOffense]_vars

\* What the last play read added to the counters of team t.
PlaysAdded(t) == stats[t].Plays - last.before[t].Plays
OffYardsAdded(t) == stats[t].OffYards - last.before[t].OffYards
TotalYardsAdded(t) == stats[t].TotalYards - last.before[t].TotalYards
SuccessfulAdded(t) == stats[t].Successful - last.before[t].Successful
ExplosiveAdded(t) == stats[t].Explosive - last.before[t].Explosive

LastClass == ClassifyOffensePlay(last.play)
LastTotalClass == ClassifyTotalOffensePlay(last.play)

\* C18: the fold increases Explosive Plays only for a run credited with at
\* least 10 yards or a pass credited with at least 20 yards; a pass play (pass,
\* sack or scramble) credited with fewer than 20 yards never counts as
\* explosive.
C18_ExplosiveThresholds ==
  Played =>
    \A t \in DOMAIN stats :
      /\ ExplosiveAdded(t) > 0 =>
           \/ LastClass.run /\ OffYardsAdded(t) >= 10
           \/ LastClass.pass /\ OffYardsAdded(t) >= 20
      /\ (t = last.team /\ LastClass.pass /\ OffYardsAdded(t) < 20) =>
           ExplosiveAdded(t) = 0

\* A spike or kneel that is not nullified, not a no-play penalty and not a
\* special-teams play.
SpikeOrKneel(play) ==
  /\ IsSpikeOrKneel(LowerText(play.text), Lower(play.type))
  /\ ~IsNullifiedPlay(LowerText(play.text))
  /\ ~IsPenaltyPlay(play, LowerText(play.text), Lower(play.type))
  /\ ~IsSpecialTeamsPlay(LowerText(play.text), Lower(play.type))

NothingForOffense(t) ==
  /\ PlaysAdded(t) = 0
  /\ OffYardsAdded(t) = 0
  /\ SuccessfulAdded(t) = 0
  /\ ExplosiveAdded(t) = 0

\* C19 as stated: every play that classify_offense_play counts as offense is
\* also counted by classify_total_offense_play, and the two results differ only
\* on spikes and kneels; a counted spike or kneel that is not nullified, not a
\* no-play penalty and not a special-teams play adds its statYardage to Total
\* Yards and nothing to Plays, Offensive Yards, Successful Plays or Explosive
\* Plays.
C19_TotalOffenseOnlySpikesKneels ==
  Played =>
    /\ LastClass.off => LastTotalClass.off
    /\ LastClass # LastTotalClass => SpikeOrKneel(last.play)
    /\ (last.verdict = "counted" /\ SpikeOrKneel(last.play)) =>
         /\ TotalYardsAdded(last.team) = last.play.yards
         /\ NothingForOffense(last.team)

\* C19 amended: every play that classify_offense_play counts as offense is
\* also counted by classify_total_offense_play; the is_offense and is_pass
\* flags of the two differ only on spikes and kneels, and the is_run flag
\* differs besides only on an aborted snap with a fumble; a counted spike or
\* kneel that is not nullified, not a no-play penalty, not a special-teams play
\* and not a return play adds nothing to Plays, Offensive Yards, Successful
\* Plays or Explosive Plays, and adds its statYardage to Total Yards when it
\* has no intentional grounding, no interception, no fumble and no accepted
\* penalty (0 on intentional grounding).
C19_TotalOffenseRefinesOffense ==
  Played =>
    /\ LastClass.off => LastTotalClass.off
    /\ ~SpikeOrKneel(last.play) =>
         /\ LastClass.off = LastTotalClass.off
         /\ LastClass.pass = LastTotalClass.pass
         /\ LastClass.run # LastTotalClass.run =>
              Has(LowerText(last.play.text), "aborted")
                /\ Has(LowerText(last.play.text), "fumble")
    /\ ( /\ last.verdict = "counted"
         /\ SpikeOrKneel(last.play)
         /\ ~IsReturnPlay(LowerText(last.play.text), Lower(last.play.type)) ) =>
         /\ ~LastClass.off /\ LastTotalClass.off
         /\ NothingForOffense(last.team)
         /\ ( /\ ~Has(LastText, "fumble")
              /\ ~LastFlags.interception
              /\ last.play.penStatus # "accepted" ) =>
              TotalYardsAdded(last.team) =
                IF IsIntentionalGrounding(last.play) THEN 0 ELSE last.play.yards

\* A counted kneel for a loss of one yard: Total Yards falls by one and the
\* offense counters stay.
C19_Witness ==
  /\ Played
  /\ last.verdict = "counted"
  /\ last.play.text = <<"kneels">>
  /\ last.play.yards = -1
  /\ LastClass = NotOffense
  /\ LastTotalClass = [off |-> TRUE, run |-> TRUE, pass |-> FALSE]
  /\ TotalYardsAdded(last.team) = -1
  /\ NothingForOffense(last.team)

-----------------------------------------------------------------------------
(* Specification SpecText: final_play_text applied to bounded texts *)

MaxTextLen == 3

TextTokens == {"pass", "INTERCEPTED", "REVERSED", "OVERTURNED", "reversed"}

\* The texts of at most MaxTextLen tokens.
BoundedTexts == UNION {[1..n -> TextTokens] : n \in 0..MaxTextLen}

InitText ==
  /\ pc = "call"
  /\ IdleFold
  /\ IdleCache
  /\ inp \in [text : BoundedTexts]
  /\ out = <<>>

CallFinalPlayText ==
  /\ pc = "call"
  /\ out' = FinalPlayText(inp.text)
  /\ pc' = "returned"
  /\ UNCHANGED <<inp, foldVars, cacheVars>>

NextText == CallFinalPlayText

SpecText == InitText /\ [][NextText]_vars

\* The positions of the replay markers of the input text.
InpMarkers == {i \in 1..Len(inp.text) : IsReplayMarker(inp.text[i])}

\* C21: final_play_text returns exactly the portion of the text after the
\* last 'reversed'/'overturned' marker (case-insensitive) whenever the text
\* contains such a marker, and the text unchanged when it contains none.
C21_FinalPlayTextAfterLastMarker ==
  pc = "returned" =>
    IF InpMarkers = {} THEN out = inp.text
    ELSE \E m \in InpMarkers :
           /\ \A j \in InpMarkers : j <= m
           /\ out = SubSeq(inp.text, m + 1, Len(inp.text))

-----------------------------------------------------------------------------
(* is_competitive_play as a function of the threshold (SpecComp) *)

\* is_competitive_play on the inputs of the call with another threshold.
InpVerdictAt(thr) == IsCompetitivePlay(inp.period, inp.prob, thr, inp.sh, inp.sa)

\* C22: for fixed play, probability map and start probabilities,
\* is_competitive_play is monotone in the threshold: if it returns true at a
\* threshold it returns true at every threshold that is at least as large.
C22_MonotoneInThreshold ==
  (pc = "returned" /\ out = TRUE) =>
    \A t2 \in Thresholds : inp.thr <= t2 => InpVerdictAt(t2)

\* A regulation play with both boundaries known that is non-competitive at
\* the lowest threshold and competitive at the call's threshold and above.
C22_Witness ==
  /\ pc = "returned"
  /\ out = TRUE
  /\ inp.period = 4
  /\ InpStartKnown /\ InpEndKnown
  /\ inp.thr = 97500
  /\ ~InpVerdictAt(50000)
  /\ InpVerdictAt(100000)

-----------------------------------------------------------------------------
(* Specification SpecSuccess: calculate_success applied to bounded inputs *)

MaxDistance == 10

InitSuccess ==
  /\ pc = "call"
  /\ IdleFold
  /\ IdleCache
  /\ inp \in [down : 0..5, distance : 1..MaxDistance, yards : -2..(MaxDistance + 2)]
  /\ out = FALSE

CallCalculateSuccess ==
  /\ pc = "call"
  /\ out' = CalculateSuccess(inp.down, inp.distance, inp.yards)
  /\ pc' = "returned"
  /\ UNCHANGED <<inp, foldVars, cacheVars>>

NextSuccess == CallCalculateSuccess

SpecSuccess == InitSuccess /\ [][NextSuccess]_vars

\* yards is at least pct percent of distance.
AtLeastPercent(yards, pct, distance) == 100 * yards >= pct * distance

\* C23: calculate_success(down, distance, yards) is true exactly when down = 1
\* and yards >= 40% of distance, or down = 2 and yards >= 60% of distance, or
\* down is 3 or 4 and yards >= distance, for every distance > 0; it is false
\* for every other down.
C23_SuccessThresholds ==
  pc = "returned" =>
    /\ out \in BOOLEAN
    /\ out <=>
         \/ inp.down = 1 /\ AtLeastPercent(inp.yards, 40, inp.distance)
         \/ inp.down = 2 /\ AtLeastPercent(inp.yards, 60, inp.distance)
         \/ inp.down \in {3, 4} /\ AtLeastPercent(inp.yards, 100, inp.distance)

\* 4th-and-1 converted with exactly one yard.
C23_Witness ==
  /\ pc = "returned"
  /\ inp.down = 4
  /\ inp.distance = 1
  /\ inp.yards = 1
  /\ out = TRUE

-----------------------------------------------------------------------------
(* Specification SpecClassify: classify_offense_play and                      *)
(* is_special_teams_play applied to the same play                             *)

ClassifyTokens == {"pass", "up the middle", "punts", "kicks onside", "kickoff",
                   "TOUCHDOWN", "kneels"}
ClassifyTexts == UNION {[1..n -> ClassifyTokens] : n \in 0..2}
ClassifyTags == {"Pass", "Rush", "Punt", "Kickoff", "Field Goal Good",
                 "Passing Touchdown", "Kickoff Return (Offense)", "Unknown"}

ClassifyPlays ==
  {[BasePlay EXCEPT !.text = x, !.type = y, !.statHints = h] :
     x \in ClassifyTexts, y \in ClassifyTags, h \in {{}, {"pass"}, {"rush"}}}

InitClassify ==
  /\ pc = "call"
  /\ IdleFold
  /\ IdleCache
  /\ inp \in [play : ClassifyPlays]
  /\ out = <<>>

CallClassifyOffensePlay ==
  /\ pc = "call"
  /\ out' = [offense |-> ClassifyOffensePlay(inp.play),
             special_teams |-> IsSpecialTeamsPlay(LowerText(inp.play.text),
                                                  Lower(inp.play.type))]
  /\ pc' = "returned"
  /\ UNCHANGED <<inp, foldVars, cacheVars>>

NextClassify == CallClassifyOffensePlay

SpecClassify == InitClassify /\ [][NextClassify]_vars

InpHasTouchdown ==
  \/ Has(LowerText(inp.play.text), "touchdown")
  \/ TagHas(Lower(inp.play.type), "touchdown")

\* C24: for every play without a touchdown in its text or type tag,
\* classify_offense_play returning offense = true and is_special_teams_play
\* returning true (on the same lower-cased text and type tag) never both hold.
C24_OffenseExcludesSpecialTeams ==
  (pc = "returned" /\ ~InpHasTouchdown) =>
    ~(out.offense.off /\ out.special_teams)

\* A pass by its text and stat hint that is tagged as a punt: special teams,
\* not offense.
C24_Witness ==
  /\ pc = "returned"
  /\ ~InpHasTouchdown
  /\ inp.play.text = <<"pass">>
  /\ inp.play.statHints = {"pass"}
  /\ inp.play.type = "Punt"
  /\ out.special_teams
  /\ ~out.offense.off

-----------------------------------------------------------------------------
(* Specification SpecCarry: the win probability carried from play to play by  *)
(* the fold (prev_home_wp, prev_away_wp) and by the start_wp_by_play_id walk,  *)
(* on feeds of several drives, one of them of a team outside the box score.    *)

CarryEntries == {NoProb, EvenProb, Prob(Num(98500), Num(1500)), WildProb}

\* Passes with and without id under every entry, and a timeout.
CarryPlays ==
  {[BasePlay EXCEPT !.period = 2, !.prob = e, !.hasId = b] :
     e \in CarryEntries, b \in BOOLEAN}
  \cup {[BasePlay EXCEPT !.period = 2, !.prob = Prob(Num(98500), Num(1500)),
                         !.type = "Timeout", !.text = <<"Timeout">>]}

InitCarry ==
  InitFold({TwoTeamGame(DefaultThreshold)},
           {<<NoneV, NoneV>>, <<Num(98500), NoneV>>, <<Num(150000), Num(-50000)>>})

StartDriveCarry == \E team \in {"1", "9"} : StartDrive(team, 75)
ProcessPlayCarry == ProcessPlay(CarryPlays)
ProcessLastPlayCarry == ProcessLastPlay(CarryPlays)

NextCarry ==
  \/ StartDriveCarry
  \/ ProcessPlayCarry
  \/ ProcessLastPlayCarry
  \/ EndDrive
  \/ Finish

SpecCarry == InitCarry /\ [][NextCarry]_vars

\* The plays read so far that have an id and a probability entry.
EntriesRead == {i \in 1..Len(inp.feed) : inp.feed[i].play.hasId /\ inp.feed[i].play.prob.has}

\* The end-of-play WP of the nearest earlier play with a probability entry, or
\* the pregame seed when there is none.
CarriedWp ==
  IF EntriesRead = {}
  THEN <<InitTracker(inp.pregame[1], inp.pregame[2]).prev_home,
         InitTracker(inp.pregame[1], inp.pregame[2]).prev_away>>
  ELSE <<inp.feed[CHOOSE i \in EntriesRead : \A j \in EntriesRead : j <= i].play.prob.home,
         inp.feed[CHOOSE i \in EntriesRead : \A j \in EntriesRead : j <= i].play.prob.away>>

\* C25: for every play with an id that the drive fold judges, the
\* start-of-play win probability the fold uses (the tracker's value when the
\* play is reached) equals the value recorded for the play in
\* start_wp_by_play_id: both are the end-of-play WP of the nearest earlier play
\* in feed order that has a probability entry, or the pregame seed.
C25_StartWpAgrees ==
  [][(inp'.feed # inp.feed /\ last'.play.hasId /\ last'.verdict # "drive_skipped") =>
       /\ <<last'.start_home, last'.start_away>> = <<tracker.walk_home, tracker.walk_away>>
       /\ <<tracker.walk_home, tracker.walk_away>> = CarriedWp]_vars

-----------------------------------------------------------------------------
(* Specification SpecScore: scoring plays in drives of either team: a         *)
(* touchdown pass, an interception returned for a touchdown, a kickoff         *)
(* returned for a touchdown, a safety; listed in scoringPlays for either team  *)
(* or not listed.                                                              *)

ScoreKinds ==
  {[type |-> "Passing Touchdown", text |-> <<"pass", "TOUCHDOWN">>, stype |-> "touchdown",
    pts |-> 7],
   [type |-> "Pass Interception Return", text |-> <<"pass", "INTERCEPTED", "TOUCHDOWN">>,
    stype |-> "touchdown", pts |-> 7],
   [type |-> "Kickoff Return (Offense)", text |-> <<"kicks", "TOUCHDOWN">>,
    stype |-> "touchdown", pts |-> 7],
   [type |-> "Safety", text |-> <<"sacked">>, stype |-> "safety", pts |-> 2]}

\* The scoringPlays entry of a play of kind k scored by team t (home is 1),
\* the first score of the game; NoSp when the play is not listed.
ScoreEntries(k) ==
  {NoSp} \cup
  {[in |-> TRUE, team |-> t, home |-> IF t = "1" THEN k.pts ELSE 0,
    away |-> IF t = "2" THEN k.pts ELSE 0, stype |-> k.stype] : t \in {"1", "2"}}

ScorePlays ==
  UNION {{[BasePlay EXCEPT !.period = 2, !.prob = e, !.type = k.type, !.text = k.text,
                           !.scoringPlay = TRUE, !.scoreValue = k.pts - 1, !.sp = c] :
            e \in {NoProb, EvenProb, Prob(Num(98500), Num(1500))}, c \in ScoreEntries(k)} :
         k \in ScoreKinds}

InitScore == InitFold({TwoTeamGame(DefaultThreshold)}, {<<NoneV, NoneV>>})

StartDriveScore == \E team \in {"1", "2"} : \E yte \in {75, 35} : StartDrive(team, yte)
ProcessPlayScore == ProcessPlay({GoodPlay, BlowoutPlay})
ProcessLastPlayScore == ProcessLastPlay(ScorePlays)

NextScore ==
  \/ StartDriveScore
  \/ ProcessPlayScore
  \/ ProcessLastPlayScore
  \/ EndDrive
  \/ Finish

SpecScore == InitScore /\ [][NextScore]_vars

\* C26: a scoring play's points are never counted twice: the step that reads
\* the play adds them either to the Non-Offensive Points of the scoring team
\* or to the points of the drive's offense, never to both, and Non-Offensive
\* Points only accrue to a team that is not the offense of the drive that
\* contains the play.
C26_PointsCountedOnce ==
  [][inp'.feed # inp.feed =>
       \A t \in DOMAIN stats :
         stats'[t].NonOffPoints > stats[t].NonOffPoints =>
           /\ drv'.points = drv.points
           /\ t # drv.team]_vars
-----------------------------------------------------------------------------
(* The Rebuilder's competitive verdict against is_competitive_play, on the    *)
(* values a plays record stores for one play or one drive start.              *)

\* competitive of a drive_starts entry (cache.py lines 572-581)
RebuildDriveStartCompetitive(entry, wp_threshold) ==
  IF entry.quarter >= 5 THEN TRUE
  ELSE IF IsNum(entry.start_home_wp) /\ IsNum(entry.start_away_wp)
    THEN entry.start_home_wp.v < wp_threshold /\ entry.start_away_wp.v < wp_threshold
  ELSE TRUE

\* The probability_map entry that holds a stored end of play: no entry when
\* neither side was stored.
StoredEndProb(cp) ==
  IF IsNum(cp.home_wp) \/ IsNum(cp.away_wp) THEN Prob(cp.home_wp, cp.away_wp) ELSE NoProb

InitRebuild ==
  /\ pc = "call"
  /\ IdleFold
  /\ IdleCache
  /\ inp \in [quarter : Periods, start_home_wp : WPVals, start_away_wp : WPVals,
              home_wp : WPVals, away_wp : WPVals, thr : Thresholds]
  /\ out = [kind |-> "none"]

\* The play loop of _rebuild_expanded_details_from_cache on the stored play,
\* beside is_competitive_play on the same values.
CallRebuildPlay ==
  /\ pc = "call"
  /\ out' = [kind |-> "play",
             rebuilt |-> RebuildCompetitive(inp, inp.thr),
             core |-> IsCompetitivePlay(inp.quarter, StoredEndProb(inp), inp.thr,
                                        inp.start_home_wp, inp.start_away_wp)]
  /\ pc' = "returned"
  /\ UNCHANGED <<inp, foldVars, cacheVars>>

\* The drive_starts loop on the stored entry (a drive start stores no end of
\* play), beside is_competitive_play on the same values.
CallRebuildDriveStart ==
  /\ pc = "call"
  /\ out' = [kind |-> "drive_start",
             rebuilt |-> RebuildDriveStartCompetitive(inp, inp.thr),
             core |-> IsCompetitivePlay(inp.quarter, NoProb, inp.thr,
                                        inp.start_home_wp, inp.start_away_wp)]
  /\ pc' = "returned"
  /\ UNCHANGED <<inp, foldVars, cacheVars>>

NextRebuild == CallRebuildPlay \/ CallRebuildDriveStart

SpecRebuild == InitRebuild /\ [][NextRebuild]_vars

\* C27: for every stored play or drive start and every threshold, the
\* Rebuilder's competitive verdict equals is_competitive_play's verdict on the
\* stored quarter and the stored start and end win probabilities.
C27_RebuildAgreesWithCore ==
  pc = "returned" => out.rebuilt = out.core

-----------------------------------------------------------------------------
(* Specification SpecGrounding: passes flagged for intentional grounding, at  *)
(* several starting positions and enforcement spots.                          *)

\* _enforced_at_yards_to_endzone (lines 131-155) on a text whose "enforced at
\* SIDE YARD" phrase names side and yard; side "" when the text has no such
\* phrase.
EnforcedAtYardsToEndzone(side, yard, offense_abbrev) ==
  IF side = "" \/ offense_abbrev = "" THEN NoYte
  ELSE IF yard < 0 \/ yard > 50 THEN NoYte
  ELSE IF yard = 50 THEN 50
  ELSE IF side = offense_abbrev THEN 100 - yard ELSE yard

NoSpot == [side |-> "", yard |-> 0]
GroundingSpots ==
  {NoSpot, [side |-> "AAA", yard |-> 38], [side |-> "AAA", yard |-> 30],
   [side |-> "BBB", yard |-> 45], [side |-> "AAA", yard |-> 50]}

GroundingPenalties ==
  {[status |-> "", type |-> ""],
   [status |-> "accepted", type |-> "intentional-grounding"],
   [status |-> "declined", type |-> "intentional-grounding"],
   [status |-> "accepted", type |-> "offensive-holding"]}

GroundingTexts ==
  {<<"pass">>, <<"pass", "PENALTY", "Intentional Grounding">>,
   <<"sacked", "PENALTY", "Intentional Grounding">>,
   <<"pass", "PENALTY", "Intentional Grounding", "No Play">>}

\* Plays of team 1 (AAA), which starts and ends the play with the ball.
GroundingPlays ==
  {[BasePlay EXCEPT !.hasId = FALSE, !.period = 2, !.text = txt, !.yards = y,
                    !.yte = start, !.startTeam = "1", !.endTeam = "1",
                    !.penStatus = pen.status, !.penType = pen.type,
                    !.enforcedYte = EnforcedAtYardsToEndzone(spot.side, spot.yard, "AAA")] :
     txt \in GroundingTexts, y \in {-34, -17, 0, 5}, start \in {NoYte, 62, 70},
     pen \in GroundingPenalties, spot \in GroundingSpots}

InitGrounding == InitFold({TwoTeamGame(DefaultThreshold)}, {<<NoneV, NoneV>>})

StartDriveGrounding == StartDrive("1", 75)
ProcessPlayGrounding == ProcessPlay({GoodPlay})
ProcessLastPlayGrounding == ProcessLastPlay(GroundingPlays)

NextGrounding ==
  \/ StartDriveGrounding
  \/ ProcessPlayGrounding
  \/ ProcessLastPlayGrounding
  \/ EndDrive
  \/ Finish

SpecGrounding == InitGrounding /\ [][NextGrounding]_vars

AcceptedGrounding(play) ==
  play.penStatus = "accepted" /\ play.penType = "intentional-grounding"

\* C28: a play with an accepted intentional-grounding penalty adds 0 to its
\* team's Total Yards, for every statYardage, starting position and penalty
\* enforcement spot.
C28_GroundingAddsNoTotalYards ==
  (Played /\ AcceptedGrounding(last.play)) => TotalYardsAdded(last.team) = 0

-----------------------------------------------------------------------------
(* Specification SpecFumble: runs, passes and sacks with a fumble, lost or    *)
(* recovered, with and without a credited gain before the fumble.             *)

FumbleOpenings == {<<"pass">>, <<"up the middle">>, <<"sacked">>}
FumbleGains == {<<>>, <<"for 3 yards">>, <<"for 20 yards">>}
FumbleEndings ==
  {<<"FUMBLES">>, <<"FUMBLES", "RECOVERED by AAA">>, <<"FUMBLES", "RECOVERED by BBB">>,
   <<"FUMBLES", "and recovers">>, <<"FUMBLES", "RECOVERED by BBB", "for 25 yards">>,
   <<"FUMBLES", "RECOVERED by BBB", "Intentional Grounding">>,
   <<"FUMBLES", "RECOVERED by BBB", "TWO-POINT CONVERSION ATTEMPT">>,
   <<"INTERCEPTED", "FUMBLES", "RECOVERED by AAA">>,
   <<"for 25 yards">>}
FumbleTexts ==
  {o \o gain \o e : o \in FumbleOpenings, gain \in FumbleGains, e \in FumbleEndings}
FumbleTags ==
  {"Pass", "Rush", "Sack", "Fumble Recovery (Own)", "Fumble Recovery (Opponent)",
   "Pass Interception Return"}

FumblePlays ==
  {[BasePlay EXCEPT !.hasId = FALSE, !.period = 2, !.text = txt, !.type = tag,
                    !.yards = y, !.startTeam = "1"] :
     txt \in FumbleTexts, tag \in FumbleTags, y \in {-5, 3, 31}}

InitFumble == InitFold({TwoTeamGame(DefaultThreshold)}, {<<NoneV, NoneV>>})

StartDriveFumble == StartDrive("1", 75)
ProcessPlayFumble == ProcessPlay({GoodPlay})
ProcessLastPlayFumble == ProcessLastPlay(FumblePlays)

NextFumble ==
  \/ StartDriveFumble
  \/ ProcessPlayFumble
  \/ ProcessLastPlayFumble
  \/ EndDrive
  \/ Finish

SpecFumble == InitFumble /\ [][NextFumble]_vars

\* The resolved text states a gain "for N yards" before its first "fumble".
LastCredited == CreditedYardsBeforeFumble(FinalPlayText(last.play.text))
GainBeforeFumble ==
  /\ Has(LastText, "fumble")
  /\ \E i \in 1..(FirstFumble(LastText) - 1) : LastText[i] \in YardsTokens

-----------------------------------------------------------------------------
(* Specification SpecRace: two callers of cache_game and one caller of        *)
(* get_cached_game work on the files of one game at the same time             *)
(* (LocalFileCache, the store when REDIS_URL is unset).  In this              *)
(* specification pc maps every caller to its position.                        *)

Writers == {"w1", "w2"}
Reader == "r"

\* The keys in the order of `items` (cache_game) and of `keys`
\* (get_cached_game).
KeyOrder == <<"meta", "stats", "plays">>

\* The record a caller of cache_game stores under key k; `write` names the
\* call the record comes from.
RecordOf(w, k) ==
  CASE k = "meta" -> [cache_version |-> CACHE_VERSION, status |-> "final", write |-> w]
    [] k = "stats" -> [rows |-> <<>>, write |-> w]
    [] OTHER -> [plays |-> <<>>, play_count |-> 0, write |-> w]

\* A file opened with "w" and not yet written, or overwritten by two callers
\* at once: json.load fails on it and LocalFileCache.get returns None.
BrokenFile == File(NoValue)

WriterAt(n) == [at |-> n, opened |-> FALSE, shared |-> FALSE]
ReaderAt(n) == [at |-> n, opened |-> FALSE, shared |-> FALSE]
WriterDone(w) == pc[w].at > Len(KeyOrder)

InitRace ==
  /\ pc = [c \in Writers \cup {Reader} |-> WriterAt(1)]
  /\ IdleFold
  /\ inp = [open |-> FALSE, feed |-> <<>>, pregame |-> <<NoneV, NoneV>>]
  /\ out = EmptyStore
  /\ payload = NoPayload
  /\ cache \in {EmptyStore, [k \in Keys |-> File(RecordOf("w0", k))]}

\* LocalFileCache.set, open(path, "w"): the file of the caller's next key is
\* truncated.
OpenFile(w) ==
  /\ ~WriterDone(w)
  /\ ~pc[w].opened
  /\ cache' = [cache EXCEPT ![KeyOrder[pc[w].at]] = BrokenFile]
  /\ pc' = [pc EXCEPT ![w].opened = TRUE]
  /\ UNCHANGED <<inp, out, foldVars, payload>>

\* LocalFileCache.set, json.dump and close: the file holds the caller's record,
\* or bytes of both when another caller wrote the file in between; the loop of
\* mset moves to the next key.
DumpFile(w) ==
  /\ ~WriterDone(w)
  /\ pc[w].opened
  /\ \E f \in {File(RecordOf(w, KeyOrder[pc[w].at]))}
               \cup (IF pc[w].shared THEN {BrokenFile} ELSE {}) :
       cache' = [cache EXCEPT ![KeyOrder[pc[w].at]] = f]
  /\ pc' = [c \in DOMAIN pc |->
              IF c = w THEN WriterAt(pc[w].at + 1)
              ELSE IF c \in Writers /\ pc[c].opened /\ pc[c].at = pc[w].at
                THEN [pc[c] EXCEPT !.shared = TRUE]
              ELSE pc[c]]
  /\ UNCHANGED <<inp, out, foldVars, payload>>

WriterOpens == \E w \in Writers : OpenFile(w)
WriterDumps == \E w \in Writers : DumpFile(w)

\* LocalFileCache.mget: get of the reader's next key.
ReadKey ==
  /\ pc[Reader].at <= Len(KeyOrder)
  /\ out' = [out EXCEPT ![KeyOrder[pc[Reader].at]] = cache[KeyOrder[pc[Reader].at]]]
  /\ pc' = [pc EXCEPT ![Reader] = ReaderAt(pc[Reader].at + 1)]
  /\ UNCHANGED <<inp, foldVars, cache, payload>>

\* get_cached_game decides on the three values read.
ReturnTriad ==
  /\ pc[Reader].at = Len(KeyOrder) + 1
  /\ payload' = GetCachedGameResult(out)
  /\ pc' = [pc EXCEPT ![Reader] = ReaderAt(Len(KeyOrder) + 2)]
  /\ UNCHANGED <<inp, out, foldVars, cache>>

NextRace ==
  \/ WriterOpens
  \/ WriterDumps
  \/ ReadKey
  \/ ReturnTriad

SpecRace == InitRace /\ [][NextRace]_vars

ReaderReturned == pc[Reader].at = Len(KeyOrder) + 2

\* C30: when cache_game interleaves with get_cached_game for the same game, or
\* with another cache_game for the same game, get_cached_game never returns a
\* triad whose meta, stats and plays records come from different writes.
C30_TriadFromOneWrite ==
  (ReaderReturned /\ payload.kind = "hit") =>
    /\ payload.meta.write = payload.stats.write
    /\ payload.stats.write = payload.plays.write

====
